---------------------------- MODULE Spec2Model ----------------------------
(***************************************************************************)
(* A model of the websvg2png browser extension:                            *)
(*   - the Scanner of src/content.ts (scanSVGElements, its one-second      *)
(*     cache, getSVGDimensions and the scanSVG message listener),          *)
(*   - the Rasterizer of src/sidepanel.tsx (cleanSvgString, svgToDataUrl), *)
(*   - the Panel's download orchestration of src/sidepanel.tsx             *)
(*     (handleDownload, downloadAllSizes), its scans (scanSVGs, the tab    *)
(*     observer, retryOnError) and its custom-size inputs,                 *)
(*   - the offscreen converter of src/contents/offscreen/index.ts.         *)
(* Each component has its own specification over the shared variables;     *)
(* a specification leaves the variables of the other components alone.     *)
(*                                                                         *)
(* Conventions.  A JavaScript value that may be null/undefined is a        *)
(* sequence of length at most one: None is null, Some(x) is x.  A          *)
(* JavaScript string that the code inspects character by character is a    *)
(* sequence of one-character strings.                                      *)
(***************************************************************************)
EXTENDS Integers, Sequences, FiniteSets, TLC

None == << >>
Some(x) == << x >>
IsSome(o) == Len(o) = 1
Get(o) == o[1]

Range(s) == { s[i] : i \in 1..Len(s) }

Min(a, b) == IF a < b THEN a ELSE b

(***************************************************************************)
(* Bounds of the model.                                                    *)
(***************************************************************************)
\* Nodes of a page in the specification of the traversal (SpecScan).
MaxNodes == 4
\* Nodes of a page in the specification of the cache (SpecCache).
MaxCacheNodes == 1
\* The clock of SpecCache stops at CACHE_DURATION * MaxWindows.
MaxWindows == 2
\* Longest width/height attribute value that is enumerated character by character.
MaxAttrLen == 2

VARIABLES
    \* ---- the page and the Scanner (src/content.ts)
    page,            \* the DOM: a sequence of nodes, see Node
    now,             \* Date.now()
    cachedElements,  \* content.ts:15  None (null) or Some(list of elements)
    lastScanTime,    \* content.ts:16
    response,        \* None, or Some(svgData) of the last sendResponse
    scanLog,         \* history of the last request, see ScanRequest
    \* ---- getSVGDimensions (src/content.ts)
    elem,            \* the SVG element getSVGDimensions is called on
    dims,            \* None, or Some of the {width, height} it returned
    \* ---- svgToDataUrl (src/sidepanel.tsx)
    svgString,       \* the markup passed in, a sequence of tokens
    target,          \* [width, height] passed in
    raster,          \* the state of the promise svgToDataUrl returned
    \* ---- the Panel (src/sidepanel.tsx)
    svgItems,        \* sidepanel.tsx:246  the items of the last scan
    selectedSizes,   \* sidepanel.tsx:250  id -> None or Some(index into PRESET_SIZES)
    customSizes,     \* sidepanel.tsx:252  id -> None or Some([width, height])
    downloadStatus,  \* sidepanel.tsx:249  id -> None or Some([loading, error])
    dl,              \* id -> the handleDownload call in flight for that id
    req,             \* id -> history of the latest handleDownload call for that id
    \* ---- the Panel's scans (src/sidepanel.tsx)
    isScanning,      \* sidepanel.tsx:247
    scanError,       \* sidepanel.tsx:248  None (null) or Some(message)
    currentTabId,    \* sidepanel.tsx:251  None (null) or Some(tab id)
    activeTab,       \* the browser's active tab: None or Some(tab id)
    effect,          \* the tab observer effect: mounted, pending re-run, closure
    scans,           \* the scanSVGs calls in flight
    retry,           \* the retryOnError call of the mount effect
    events,          \* history: external events so far, and a scan owed to one
    settled,         \* history: None or Some of the scan that settled last
    \* ---- the offscreen converter (src/contents/offscreen/index.ts)
    offMsg,          \* the message runtime.onMessage delivers to the listener
    off,             \* the listener's call: position, port, canvas, responses
    \* ---- the custom size inputs of one item (src/sidepanel.tsx)
    inputs           \* the CustomSizeInputs instance: its state, ref and timer

scanVars == << page, now, cachedElements, lastScanTime, response, scanLog >>
dimVars == << elem, dims >>
rasterVars == << svgString, target, raster >>

panelVars == << svgItems, selectedSizes, customSizes, downloadStatus, dl, req >>
perItemVars == << selectedSizes, customSizes, downloadStatus, dl, req >>
tabVars == << isScanning, scanError, currentTabId, activeTab, effect, scans,
              retry, events, settled >>

offVars == << offMsg, off >>

vars == << scanVars, dimVars, rasterVars, panelVars, tabVars, offVars, inputs >>

\* What the actions of one component leave alone.
notScan == << dimVars, rasterVars, panelVars, tabVars, offVars, inputs >>
notDim == << scanVars, rasterVars, panelVars, tabVars, offVars, inputs >>
notRaster == << scanVars, dimVars, panelVars, tabVars, offVars, inputs >>
notPanel == << scanVars, dimVars, rasterVars, tabVars, offVars, inputs >>
notTabs == << scanVars, dimVars, rasterVars, perItemVars, offVars, inputs >>
notOff == << scanVars, dimVars, rasterVars, panelVars, tabVars, inputs >>
notInputs == << scanVars, dimVars, rasterVars, tabVars, offVars,
               svgItems, selectedSizes, downloadStatus, dl, req >>

(***************************************************************************)
(* THE PAGE                                                                *)
(*                                                                         *)
(* Node i of a page is page[i] = [kind, parent, link].  parent is a        *)
(* smaller node index, or 0 for the top document.  link says how the node  *)
(* hangs under its parent:                                                 *)
(*    "light"   an ordinary child element                                  *)
(*    "shadow"  a top-level element of the parent's (open) shadow root     *)
(*    "frame"   a top-level element of the parent iframe's document        *)
(* Siblings are in document order by index.  kind "xframe" is an iframe    *)
(* whose contentDocument is inaccessible (cross-origin: null, or throws).  *)
(***************************************************************************)
Kinds == { "svg", "div", "iframe", "xframe" }

\* The links a child may have under a parent of the given kind.
LinksUnder(pg, p) ==
    IF p = 0 THEN { "light" }
    ELSE CASE pg[p].kind = "svg"    -> { "light" }
           [] pg[p].kind = "div"    -> { "light", "shadow" }
           [] pg[p].kind = "iframe" -> { "frame" }
           [] pg[p].kind = "xframe" -> { "frame" }

\* The nodes that can be added to page pg.
NewNodes(pg) ==
    { [kind |-> k, parent |-> p, link |-> l] :
        k \in Kinds, p \in 0..Len(pg), l \in { "light", "shadow", "frame" } }

ValidNew(pg, n) == n.link \in LinksUnder(pg, n.parent)

\* Ascending sequence of the members of a set of node indices.
RECURSIVE SortedSeq(_)
SortedSeq(S) ==
    IF S = {} THEN << >>
    ELSE LET m == CHOOSE x \in S : \A y \in S : x <= y
         IN  << m >> \o SortedSeq(S \ { m })

LightChildren(pg, i) ==
    SortedSeq({ j \in 1..Len(pg) : pg[j].parent = i /\ pg[j].link = "light" })

\* The top-level elements of root r: r = 0 is the top document, r > 0 is the
\* shadow root (of a div) or the content document (of an iframe) of node r.
TopLevel(pg, r) ==
    SortedSeq({ j \in 1..Len(pg) :
                  /\ pg[j].parent = r
                  /\ IF r = 0 THEN TRUE ELSE pg[j].link # "light" })

RECURSIVE Preorder(_, _), PreorderAll(_, _)
\* Element i and its light-DOM descendants, in document order.
Preorder(pg, i) == << i >> \o PreorderAll(pg, LightChildren(pg, i))
PreorderAll(pg, s) ==
    IF s = << >> THEN << >>
    ELSE Preorder(pg, Head(s)) \o PreorderAll(pg, Tail(s))

\* root.querySelectorAll('*'): the elements of one root in document order.  It
\* does not descend into shadow roots or frame documents.
QuerySelectorAllStar(pg, r) == PreorderAll(pg, TopLevel(pg, r))

IsSvg(pg, i) == pg[i].kind = "svg"
IsIframe(pg, i) == pg[i].kind \in { "iframe", "xframe" }

\* root.querySelectorAll('svg') and document.querySelectorAll('iframe')
QuerySelectorAllSvg(pg, r) ==
    SelectSeq(QuerySelectorAllStar(pg, r), LAMBDA i : IsSvg(pg, i))
QuerySelectorAllIframe(pg, r) ==
    SelectSeq(QuerySelectorAllStar(pg, r), LAMBDA i : IsIframe(pg, i))

\* el.shadowRoot is non-null
HasShadowRoot(pg, i) ==
    \E j \in 1..Len(pg) : pg[j].parent = i /\ pg[j].link = "shadow"

\* iframe.contentDocument is a document (not null, and reading it does not throw)
HasContentDocument(pg, i) == pg[i].kind = "iframe"

(***************************************************************************)
(* THE SCANNER: scanSVGElements (content.ts:14-80)                         *)
(* The instanceof guards of lines 31, 43 and 60 are taken to pass for      *)
(* every svg and every element, the reading most favourable to the scan.   *)
(***************************************************************************)
CACHE_DURATION == 1000

\* mutant: the elements of a root are collected last-to-first
RECURSIVE Reverse(_)
Reverse(s) == IF s = << >> THEN << >> ELSE Reverse(Tail(s)) \o << Head(s) >>
scanRegularDOM_reversed(pg, r) == Reverse(QuerySelectorAllSvg(pg, r))

\* content.ts:28-35  the svgs pushed by scanRegularDOM(root)
scanRegularDOM(pg, r) == QuerySelectorAllSvg(pg, r)

RECURSIVE scanShadowDOM(_, _), scanShadowDOMEach(_, _)
\* content.ts:38-48  the svgs pushed by scanShadowDOM(el)
scanShadowDOM(pg, el) ==
    IF HasShadowRoot(pg, el)
    THEN scanRegularDOM(pg, el)
         \o scanShadowDOMEach(pg,
              SelectSeq(QuerySelectorAllStar(pg, el),
                        LAMBDA e : HasShadowRoot(pg, e)))
    ELSE << >>
\* elements.forEach(el => scanShadowDOM(el))
scanShadowDOMEach(pg, s) ==
    IF s = << >> THEN << >>
    ELSE scanShadowDOM(pg, Head(s)) \o scanShadowDOMEach(pg, Tail(s))

\* content.ts:53-68  the body of iframes.forEach for one iframe
scanOneIframe(pg, f) ==
    IF HasContentDocument(pg, f)
    THEN scanRegularDOM(pg, f)
         \o scanShadowDOMEach(pg, QuerySelectorAllStar(pg, f))
    ELSE << >>   \* contentDocument null, or the access threw and was caught

RECURSIVE scanIframesEach(_, _)
scanIframesEach(pg, s) ==
    IF s = << >> THEN << >>
    ELSE scanOneIframe(pg, Head(s)) \o scanIframesEach(pg, Tail(s))

\* content.ts:51-69
scanIframes(pg) == scanIframesEach(pg, QuerySelectorAllIframe(pg, 0))

\* content.ts:25, 71-74  the traversal of a cache miss
Traverse(pg) ==
    scanRegularDOM(pg, 0)
    \o scanShadowDOMEach(pg, QuerySelectorAllStar(pg, 0))
    \o scanIframes(pg)

\* mutant: the cache test accepts an entry that is exactly CACHE_DURATION old
CacheHit_inclusive(cached, t, last) ==
    IsSome(cached) /\ (t - last) <= CACHE_DURATION

\* content.ts:21  cachedElements && (now - lastScanTime) < CACHE_DURATION
\* (an empty array is truthy: an empty list is cached like any other)
CacheHit(cached, t, last) ==
    IsSome(cached) /\ (t - last) < CACHE_DURATION


\* content.ts:132-136  svgElements.map((svg, index) => ({id: index, ...}))
\* el stands for the element's outerHTML and its dimensions, which
\* getSVGDimensions (below) resolves from the element alone.
svgData(els) == [ i \in 1..Len(els) |-> [id |-> i - 1, el |-> els[i]] ]

\* content.ts:129-146 with scanSVGElements (content.ts:19-79) inlined:
\* one scanSVG request, answered synchronously.
ScanRequest ==
    LET hit == CacheHit(cachedElements, now, lastScanTime)
        els == IF hit THEN Get(cachedElements) ELSE Traverse(page)
    IN  /\ cachedElements' = IF hit THEN cachedElements ELSE Some(els)
        /\ lastScanTime' = IF hit THEN lastScanTime ELSE now
        /\ response' = Some(svgData(els))
        \* history: when this request came, whether it traversed, the most
        \* recent traversal before it (prev) and up to it (last)
        /\ scanLog' = [ time      |-> now,
                        traversed |-> ~hit,
                        prev      |-> scanLog.last,
                        last      |-> IF hit THEN scanLog.last
                                      ELSE Some([time |-> now,
                                                 els  |-> Traverse(page)]) ]
        /\ UNCHANGED << page, now, notScan >>

\* The page changes: a node is inserted.
AddNode(bound) ==
    /\ Len(page) < bound
    /\ \E nd \in NewNodes(page) :
         /\ ValidNew(page, nd)
         /\ page' = Append(page, nd)
    /\ UNCHANGED << now, cachedElements, lastScanTime, response, scanLog, notScan >>

\* The page changes: the last inserted node is removed.
RemoveNode ==
    /\ Len(page) > 0
    /\ page' = SubSeq(page, 1, Len(page) - 1)
    /\ UNCHANGED << now, cachedElements, lastScanTime, response, scanLog, notScan >>

\* Time passes.  The steps straddle the cache window.
TickSteps == { CACHE_DURATION \div 2, CACHE_DURATION - 1 }
Tick ==
    /\ \E d \in TickSteps :
         /\ now + d <= CACHE_DURATION * MaxWindows
         /\ now' = now + d
    /\ UNCHANGED << page, cachedElements, lastScanTime, response, scanLog, notScan >>

ScanInit0 ==
    /\ now = 0
    /\ cachedElements = None
    /\ lastScanTime = 0
    /\ response = None
    /\ scanLog = [ time |-> 0, traversed |-> FALSE, prev |-> None, last |-> None ]

\* The page is built, node by node, before the first request.
BuildPage == response = None /\ AddNode(MaxNodes)

ScanIdle == page = << >> /\ ScanInit0

(***************************************************************************)
(* CLAIMS ABOUT THE SCANNER                                                *)
(***************************************************************************)
\* Node i can be reached from the top document through light-DOM children,
\* shadow roots and the documents of accessible (same-origin) iframes.
RECURSIVE Reachable(_, _)
Reachable(pg, i) ==
    LET p == pg[i].parent
    IN  \/ p = 0
        \/ /\ Reachable(pg, p)
           /\ pg[i].link = "frame" => pg[p].kind = "iframe"

ReachableSvgs(pg) == { i \in 1..Len(pg) : IsSvg(pg, i) /\ Reachable(pg, i) }

\* The root (top document 0, or the host of a shadow root or frame document)
\* whose tree holds node i.
RECURSIVE RootOf(_, _)
RootOf(pg, i) ==
    IF pg[i].link # "light" THEN pg[i].parent
    ELSE IF pg[i].parent = 0 THEN 0 ELSE RootOf(pg, pg[i].parent)

\* The document (0, or an iframe node) that holds node i.
RECURSIVE DocOf(_, _)
DocOf(pg, i) ==
    IF pg[i].link = "frame" THEN pg[i].parent
    ELSE IF pg[i].parent = 0 THEN 0 ELSE DocOf(pg, pg[i].parent)

\* Position of x in a sequence without repetitions (0 when absent).
IndexOf(s, x) ==
    IF \E k \in 1..Len(s) : s[k] = x
    THEN CHOOSE k \in 1..Len(s) : s[k] = x
    ELSE 0

\* The depth-first walk of the rendering tree: at a host, its shadow root or
\* frame document is walked at the host's position, then its light children.
RECURSIVE Composed(_, _), ComposedAll(_, _)
Composed(pg, i) ==
    << i >>
    \o (IF pg[i].kind = "xframe" THEN << >> ELSE ComposedAll(pg, TopLevel(pg, i)))
    \o ComposedAll(pg, LightChildren(pg, i))
ComposedAll(pg, s) ==
    IF s = << >> THEN << >>
    ELSE Composed(pg, Head(s)) \o ComposedAll(pg, Tail(s))
ComposedOrder(pg) == ComposedAll(pg, TopLevel(pg, 0))

ResponseEls == [ i \in 1..Len(Get(response)) |-> Get(response)[i].el ]

\* C1 (as claimed): a scan on a cache miss returns exactly one record for each
\* SVG element reachable from the top document through any nesting of shadow
\* roots and same-origin iframes: none listed twice, none missing.
C1_OneRecordPerReachableSvg ==
    (IsSome(response) /\ scanLog.traversed) =>
        /\ Range(ResponseEls) = ReachableSvgs(page)
        /\ Len(ResponseEls) = Cardinality(ReachableSvgs(page))

\* C2 (as claimed): the records are in the order of the depth-first walk of the
\* rendering tree (descending into a host's shadow root or frame document at the
\* host's position), and ids are 0..n-1 in that order.
C2_RenderingTreeOrder ==
    IsSome(response) =>
        LET r == Get(response)
            walk == ComposedOrder(page)
        IN  /\ \A i \in 1..Len(r) : r[i].id = i - 1
            /\ \A i, j \in 1..Len(r) :
                 IndexOf(walk, r[i].el) < IndexOf(walk, r[j].el) => r[i].id < r[j].id

\* The phase of the scan that finds an element: 1 the light DOM of the top
\* document, 2 the shadow roots under the top document, 3 the iframes.
Phase(pg, i) ==
    IF DocOf(pg, i) # 0 THEN 3 ELSE IF RootOf(pg, i) # 0 THEN 2 ELSE 1

\* C2 (amended): each record's id is its position in the response, 0..n-1
\* without gaps; the records come in the scan's three phases (light DOM of the
\* top document, then shadow roots of the top document, then iframe documents);
\* and two SVGs of the same root (document or shadow root) are in that root's
\* document order.
C2_ScanOrder ==
    IsSome(response) =>
        LET r == Get(response)
        IN  /\ \A i \in 1..Len(r) : r[i].id = i - 1
            /\ \A i, j \in 1..Len(r) :
                 i < j =>
                   /\ Phase(page, r[i].el) <= Phase(page, r[j].el)
                   /\ RootOf(page, r[i].el) = RootOf(page, r[j].el) =>
                        LET order == QuerySelectorAllStar(page, RootOf(page, r[i].el))
                        IN  IndexOf(order, r[i].el) < IndexOf(order, r[j].el)

\* Witness of C2: a response that lists a top-document SVG before an SVG of a
\* shadow root whose host precedes it in the document, and two SVGs of one root.
C2_Witness ==
    /\ IsSome(response)
    /\ \E i, j \in 1..Len(Get(response)) :
         LET a == Get(response)[i].el
             b == Get(response)[j].el
         IN  /\ i < j
             /\ RootOf(page, a) = 0 /\ RootOf(page, b) # 0
             /\ IndexOf(ComposedOrder(page), b) < IndexOf(ComposedOrder(page), a)
    /\ \E i, j \in 1..Len(Get(response)) :
         i < j /\ RootOf(page, Get(response)[i].el) = RootOf(page, Get(response)[j].el)

\* C3: a request less than CACHE_DURATION after the most recent traversal is
\* answered with the list of that traversal, without a new traversal (also when
\* the list is empty or the page has changed); a request CACHE_DURATION or more
\* after it (or the first request) traverses; a hit does not extend the window,
\* so the list returned is never CACHE_DURATION old.
C3_CacheWindow ==
    IsSome(response) =>
        LET fresh == /\ IsSome(scanLog.prev)
                     /\ scanLog.time - Get(scanLog.prev).time < CACHE_DURATION
        IN  /\ fresh =>
                 /\ ~scanLog.traversed
                 /\ Get(response) = svgData(Get(scanLog.prev).els)
                 /\ scanLog.last = scanLog.prev
            /\ ~fresh =>
                 /\ scanLog.traversed
                 /\ Get(scanLog.last).time = scanLog.time
            /\ Get(response) = svgData(Get(scanLog.last).els)
            /\ scanLog.time - Get(scanLog.last).time < CACHE_DURATION

\* Witness of C3: a cache hit that returns the empty list of the last traversal
\* although the page has gained an SVG since, and the clock has passed the
\* window of an earlier traversal.
C3_Witness ==
    /\ IsSome(response)
    /\ ~scanLog.traversed
    /\ Get(response) = << >>
    /\ Traverse(page) # << >>
    /\ now = scanLog.time
    /\ Get(scanLog.last).time >= CACHE_DURATION

(***************************************************************************)
(* getSVGDimensions (content.ts:83-126)                                    *)
(*                                                                         *)
(* A JavaScript number is [nan, v]: v is the value in units of 1/Scale, so *)
(* that the decimals of the strings of the model are exact.                *)
(***************************************************************************)
RECURSIVE Pow10(_)
Pow10(n) == IF n = 0 THEN 1 ELSE 10 * Pow10(n - 1)
\* One decimal place more than any string of the model has.
Scale == Pow10(MaxAttrLen + 1)

Num(n) == [nan |-> FALSE, v |-> n * Scale]
NaN == [nan |-> TRUE, v |-> 0]
\* JavaScript truthiness of a number: neither 0 nor NaN
Truthy(x) == ~x.nan /\ x.v # 0
\* a || b on numbers
OrElse(a, b) == IF Truthy(a) THEN a ELSE b

DigitChars == << "0", "1", "2", "3", "4", "5", "6", "7", "8", "9" >>
IsDigit(c) == c \in Range(DigitChars)
DigitVal(c) == IndexOf(DigitChars, c) - 1

\* The longest prefix of s whose characters all satisfy the test.
TakeWhile(s, Test(_)) ==
    LET stop == { i \in 1..Len(s) : ~Test(s[i]) }
    IN  IF stop = {} THEN s
        ELSE SubSeq(s, 1, (CHOOSE i \in stop : \A j \in stop : i <= j) - 1)

Drop(s, n) == SubSeq(s, n + 1, Len(s))

\* Value of a digit string as an integer, and as a fraction in units 1/Scale.
RECURSIVE IntVal(_)
IntVal(d) ==
    IF d = << >> THEN 0
    ELSE IntVal(SubSeq(d, 1, Len(d) - 1)) * 10 + DigitVal(d[Len(d)])
RECURSIVE FracVal(_, _)
FracVal(d, unit) ==
    IF d = << >> \/ unit = 0 THEN 0
    ELSE DigitVal(Head(d)) * unit + FracVal(Tail(d), unit \div 10)

\* parseFloat on a string of digits and dots: the longest prefix that is a
\* decimal literal (digits, optionally a dot and digits); NaN without a digit.
parseFloat(m) ==
    LET int  == TakeWhile(m, IsDigit)
        rest == Drop(m, Len(int))
        frac == IF rest # << >> /\ Head(rest) = "."
                THEN TakeWhile(Tail(rest), IsDigit) ELSE << >>
    IN  IF int = << >> /\ frac = << >> THEN NaN
        ELSE [nan |-> FALSE,
              v   |-> IntVal(int) * Scale + FracVal(frac, Scale \div 10)]

\* mutant: the pattern also takes a sign, /^(-?[\d.]+)/
parseSize_signed(size) ==
    IF ~IsSome(size) \/ Get(size) = << >> THEN Num(0)
    ELSE LET str == Get(size)
             neg == Head(str) = "-"
             m   == TakeWhile(IF neg THEN Tail(str) ELSE str,
                              LAMBDA c : IsDigit(c) \/ c = ".")
         IN  IF m = << >> THEN Num(0)
             ELSE IF neg /\ ~parseFloat(m).nan
                  THEN [nan |-> FALSE, v |-> 0 - parseFloat(m).v]
                  ELSE parseFloat(m)

\* content.ts:116-120  parseSize: size.match(/^([\d.]+)/), then parseFloat
parseSize(size) ==
    IF ~IsSome(size) \/ Get(size) = << >> THEN Num(0)
    ELSE LET m == TakeWhile(Get(size), LAMBDA c : IsDigit(c) \/ c = ".")
         IN  IF m = << >> THEN Num(0) ELSE parseFloat(m)

\* !size for a string or null: null and "" are falsy
Falsy(size) == ~IsSome(size) \/ Get(size) = << >>

\* str.split(' ')
RECURSIVE Split(_)
Split(str) ==
    LET first == TakeWhile(str, LAMBDA c : c # " ")
    IN  IF Len(first) = Len(str) THEN << first >>
        ELSE << first >> \o Split(Drop(str, Len(first) + 1))

\* n.toString() for a non-negative integer
RECURSIVE NumberToString(_)
NumberToString(n) ==
    IF n < 10 THEN << DigitChars[n + 1] >>
    ELSE NumberToString(n \div 10) \o << DigitChars[(n % 10) + 1] >>

\* content.ts:85-95  the attributes, then the viewBox
AfterViewBox(e) ==
    IF (Falsy(e.width) \/ Falsy(e.height)) /\ ~Falsy(e.viewBox)
    THEN LET viewBox == Split(Get(e.viewBox))
         IN  IF Len(viewBox) = 4
             THEN << Some(viewBox[3]), Some(viewBox[4]) >>
             ELSE << e.width, e.height >>
    ELSE << e.width, e.height >>

\* content.ts:98-102  the computed style
AfterStyle(e) ==
    LET wh == AfterViewBox(e)
    IN  IF Falsy(wh[1]) \/ Falsy(wh[2])
        THEN << Some(e.styleWidth), Some(e.styleHeight) >>
        ELSE wh

\* content.ts:105-113  the bounding box (getBBox may throw: bbox = None)
AfterBBox(e) ==
    LET wh == AfterStyle(e)
    IN  IF (Falsy(wh[1]) \/ Falsy(wh[2])) /\ IsSome(e.bbox)
        THEN << Some(NumberToString(Get(e.bbox).width)),
                Some(NumberToString(Get(e.bbox).height)) >>
        ELSE wh

DEFAULT_SIZE == 100

\* content.ts:83-126
getSVGDimensions(e) ==
    LET wh == AfterBBox(e)
    IN  [ width  |-> OrElse(OrElse(parseSize(wh[1]), Num(e.clientWidth)),
                            Num(DEFAULT_SIZE)),
          height |-> OrElse(OrElse(parseSize(wh[2]), Num(e.clientHeight)),
                            Num(DEFAULT_SIZE)) ]

\* ---- the elements of the model
AttrChars == { "0", "5", ".", "-" }
RECURSIVE StringsUpTo(_)
StringsUpTo(n) ==
    IF n = 0 THEN { << >> }
    ELSE LET shorter == StringsUpTo(n - 1)
         IN  shorter \cup { Append(str, c) : str \in shorter, c \in AttrChars }

\* getAttribute('width') / getAttribute('height'): null or a string
AttrValues == { None } \cup { Some(str) : str \in StringsUpTo(MaxAttrLen) }

\* getAttribute('viewBox'): null, "0 0 10 20", "0 0 10" (three components),
\* "0 0 0 5" (zero width)
ViewBoxValues ==
    { None,
      Some(<< "0", " ", "0", " ", "1", "0", " ", "2", "0" >>),
      Some(<< "0", " ", "0", " ", "1", "0" >>),
      Some(<< "0", " ", "0", " ", "0", " ", "5" >>) }

\* getComputedStyle(svg).width/.height: "auto", "0px", "30px"/"40px", ""
StyleValues ==
    { << << "a", "u", "t", "o" >>, << "a", "u", "t", "o" >> >>,
      << << "0", "p", "x" >>, << "0", "p", "x" >> >>,
      << << "3", "0", "p", "x" >>, << "4", "0", "p", "x" >> >>,
      << << >>, << >> >> }

\* svg.getBBox(): throws, 0 x 0, 30 x 40
BBoxValues ==
    { None, Some([width |-> 0, height |-> 0]), Some([width |-> 30, height |-> 40]) }

\* svg.clientWidth / svg.clientHeight
ClientValues == { << 0, 0 >>, << 24, 12 >> }

MakeElement(w, h, vb, st, bb, cl) ==
    [ width |-> w, height |-> h, viewBox |-> vb,
      styleWidth |-> st[1], styleHeight |-> st[2],
      bbox |-> bb, clientWidth |-> cl[1], clientHeight |-> cl[2] ]

\* Every pair of attribute strings on an element with or without a usable
\* viewBox, style and layout box; and every combination of viewBox, style,
\* bounding box and layout box on an element whose attributes are absent,
\* empty or plain numbers.
Elements ==
    { MakeElement(w, h, vb, st, Some([width |-> 30, height |-> 40]), cl) :
        w \in AttrValues, h \in AttrValues,
        vb \in { None, Some(<< "0", " ", "0", " ", "1", "0", " ", "2", "0" >>) },
        st \in { << << "a", "u", "t", "o" >>, << "a", "u", "t", "o" >> >>,
                 << << "3", "0", "p", "x" >>, << "4", "0", "p", "x" >> >> },
        cl \in ClientValues }
    \cup
    { MakeElement(w, h, vb, st, bb, cl) :
        w \in { None, Some(<< >>), Some(<< "5" >>) },
        h \in { None, Some(<< >>), Some(<< "5" >>) },
        vb \in ViewBoxValues, st \in StyleValues, bb \in BBoxValues,
        cl \in ClientValues }

NoElement ==
    [ width |-> None, height |-> None, viewBox |-> None,
      styleWidth |-> << >>, styleHeight |-> << >>,
      bbox |-> None, clientWidth |-> 0, clientHeight |-> 0 ]

DimIdle == elem = NoElement /\ dims = None

\* content.ts:135  dimensions: getSVGDimensions(svg)
GetSVGDimensions ==
    /\ dims = None
    /\ dims' = Some(getSVGDimensions(elem))
    /\ UNCHANGED << elem, notDim >>

(***************************************************************************)
(* CLAIMS ABOUT getSVGDimensions                                           *)
(***************************************************************************)
\* The number a size string starts with (NaN when it starts with none).
LeadingNumber(str) ==
    parseFloat(TakeWhile(str, LAMBDA c : IsDigit(c) \/ c = "."))
\* A source "yields a positive number": a string that starts with one.
DenotesPositive(size) ==
    /\ IsSome(size)
    /\ ~LeadingNumber(Get(size)).nan
    /\ LeadingNumber(Get(size)).v > 0

FourComponents(e) == IsSome(e.viewBox) /\ Len(Split(Get(e.viewBox))) = 4
ViewBoxComponent(e, k) == Some(Split(Get(e.viewBox))[k])
BBoxUsable(e) ==
    IsSome(e.bbox) /\ Get(e.bbox).width > 0 /\ Get(e.bbox).height > 0
StyleUsable(e) ==
    DenotesPositive(Some(e.styleWidth)) /\ DenotesPositive(Some(e.styleHeight))

\* C4 (as claimed): the chain attributes -> viewBox -> computed style ->
\* bounding box -> 100, each step used when the earlier ones gave no usable
\* value.  (1) Usable width and height attributes win, whatever the viewBox.
\* (2) A viewBox "0 0 W H" without width/height attributes gives W x H.
\* (3) Without attributes and viewBox, when the computed style gives no usable
\* size, the result is the bounding box when that is positive and 100 x 100
\* only when it is not (stated for elements without a client size).
C4_FallbackChain ==
    IsSome(dims) =>
        LET d == Get(dims)
        IN  /\ (DenotesPositive(elem.width) /\ DenotesPositive(elem.height)) =>
                 /\ d.width = LeadingNumber(Get(elem.width))
                 /\ d.height = LeadingNumber(Get(elem.height))
            /\ ( /\ elem.width = None /\ elem.height = None
                 /\ FourComponents(elem)
                 /\ DenotesPositive(ViewBoxComponent(elem, 3))
                 /\ DenotesPositive(ViewBoxComponent(elem, 4)) ) =>
                 /\ d.width = LeadingNumber(Get(ViewBoxComponent(elem, 3)))
                 /\ d.height = LeadingNumber(Get(ViewBoxComponent(elem, 4)))
            /\ ( /\ elem.width = None /\ elem.height = None /\ elem.viewBox = None
                 /\ ~StyleUsable(elem)
                 /\ elem.clientWidth = 0 /\ elem.clientHeight = 0 ) =>
                 IF BBoxUsable(elem)
                 THEN /\ d.width = Num(Get(elem.bbox).width)
                      /\ d.height = Num(Get(elem.bbox).height)
                 ELSE /\ d.width = Num(DEFAULT_SIZE)
                      /\ d.height = Num(DEFAULT_SIZE)

\* No source of the width (of the height) yields a positive number.
NoPositiveWidth(e) ==
    /\ ~DenotesPositive(e.width)
    /\ FourComponents(e) => ~DenotesPositive(ViewBoxComponent(e, 3))
    /\ ~DenotesPositive(Some(e.styleWidth))
    /\ IsSome(e.bbox) => Get(e.bbox).width <= 0
    /\ e.clientWidth <= 0
NoPositiveHeight(e) ==
    /\ ~DenotesPositive(e.height)
    /\ FourComponents(e) => ~DenotesPositive(ViewBoxComponent(e, 4))
    /\ ~DenotesPositive(Some(e.styleHeight))
    /\ IsSome(e.bbox) => Get(e.bbox).height <= 0
    /\ e.clientHeight <= 0

\* C5: whatever the attributes, viewBox, computed style, bounding box and
\* client size are, the width and the height returned are numbers strictly
\* greater than zero (never 0, negative or NaN), and a dimension none of whose
\* sources yields a positive number is 100.
C5_PositiveDimensions ==
    IsSome(dims) =>
        LET d == Get(dims)
        IN  /\ ~d.width.nan /\ d.width.v > 0
            /\ ~d.height.nan /\ d.height.v > 0
            /\ NoPositiveWidth(elem) => d.width = Num(DEFAULT_SIZE)
            /\ NoPositiveHeight(elem) => d.height = Num(DEFAULT_SIZE)

\* Witness of C5: width="-5" (no match, 0) and height=".." (parseFloat gives
\* NaN) on an element without a client size resolve to 100 x 100.
C5_Witness ==
    /\ IsSome(dims)
    /\ elem.width = Some(<< "-", "5" >>)
    /\ elem.height = Some(<< ".", "." >>)
    /\ elem.clientWidth = 0
    /\ elem.clientHeight = 0
    /\ Get(dims) = [width |-> Num(DEFAULT_SIZE), height |-> Num(DEFAULT_SIZE)]

(***************************************************************************)
(* THE RASTERIZER: cleanSvgString and svgToDataUrl (sidepanel.tsx:93-195)  *)
(*                                                                         *)
(* Markup is a sequence of tokens [t, a, v]:                               *)
(*    open       <a                  attr    a="v" with the space before   *)
(*    gt         >                   selfclose   />                        *)
(*    close      </a>                ws / nl     a blank / a line break    *)
(* The regular expressions of cleanSvgString are applied token by token.   *)
(***************************************************************************)
Open(name) == [t |-> "open", a |-> name, v |-> ""]
Attr(name, value) == [t |-> "attr", a |-> name, v |-> value]
Gt == [t |-> "gt", a |-> "", v |-> ""]
SelfClose == [t |-> "selfclose", a |-> "", v |-> ""]
Close(name) == [t |-> "close", a |-> name, v |-> ""]
Ws == [t |-> "ws", a |-> "", v |-> ""]
Nl == [t |-> "nl", a |-> "", v |-> ""]

SVG_NS == "http://www.w3.org/2000/svg"
XLINK_NS == "http://www.w3.org/1999/xlink"

\* sidepanel.tsx:96  .replace(/\n/g, ' ')
ReplaceNewlines(toks) ==
    [ i \in 1..Len(toks) |-> IF toks[i].t = "nl" THEN Ws ELSE toks[i] ]

\* sidepanel.tsx:97  .replace(/\s+/g, ' ')
RECURSIVE CollapseSpaces(_)
CollapseSpaces(toks) ==
    IF Len(toks) < 2 THEN toks
    ELSE IF toks[1].t = "ws" /\ toks[2].t = "ws"
         THEN CollapseSpaces(Tail(toks))
         ELSE << Head(toks) >> \o CollapseSpaces(Tail(toks))

EndsTag(tok) == tok.t \in { "gt", "selfclose", "close" }
StartsTag(tok) == tok.t \in { "open", "close" }

\* sidepanel.tsx:98  .replace(/>\s+</g, '><')
StripBetweenTags(toks) ==
    SelectSeq(
        [ i \in 1..Len(toks) |->
            IF /\ toks[i].t = "ws"
               /\ 1 < i /\ i < Len(toks)
               /\ EndsTag(toks[i - 1]) /\ StartsTag(toks[i + 1])
            THEN [t |-> "removed", a |-> "", v |-> ""]
            ELSE toks[i] ],
        LAMBDA tok : tok.t # "removed")

\* sidepanel.tsx:99-100  .replace(/xlink:href/g, 'href').replace(/xmlns:xlink/g, 'xmlns')
RenameAttr(toks, from, to) ==
    [ i \in 1..Len(toks) |->
        IF toks[i].t = "attr" /\ toks[i].a = from
        THEN Attr(to, toks[i].v) ELSE toks[i] ]

\* sidepanel.tsx:101  .replace(/<svg/, '<svg xmlns="http://www.w3.org/2000/svg"')
\* not global: the first <svg only, whatever attributes follow it
EnsureXmlns(toks) ==
    LET at == { i \in 1..Len(toks) : toks[i] = Open("svg") }
    IN  IF at = {} THEN toks
        ELSE LET k == CHOOSE i \in at : \A j \in at : i <= j
             IN  SubSeq(toks, 1, k) \o << Attr("xmlns", SVG_NS) >>
                 \o SubSeq(toks, k + 1, Len(toks))

\* sidepanel.tsx:93-102
cleanSvgString(toks) ==
    EnsureXmlns(
      RenameAttr(
        RenameAttr(
          StripBetweenTags(CollapseSpaces(ReplaceNewlines(toks))),
          "xlink:href", "href"),
        "xmlns:xlink", "xmlns"))

(***************************************************************************)
(* DOMParser.parseFromString(markup, 'image/svg+xml') yields a parsererror *)
(* document unless the markup is well-formed XML: one root element, tags   *)
(* balanced, no attribute twice in a tag, every xlink: prefix declared.    *)
(***************************************************************************)
IsBlank(tok) == tok.t \in { "ws", "nl" }
SkipBlanks(toks) == Drop(toks, Len(TakeWhile(toks, IsBlank)))

Fail == [ok |-> FALSE, rest |-> << >>]

RECURSIVE ParseElement(_, _), ParseContent(_, _)
\* toks starts at an element; xlink: whether the xlink prefix is in scope
ParseElement(toks, xlink) ==
    IF toks = << >> \/ Head(toks).t # "open" THEN Fail
    ELSE
      LET name   == Head(toks).a
          attrs  == TakeWhile(Tail(toks), LAMBDA tok : tok.t = "attr")
          names  == [ i \in 1..Len(attrs) |-> attrs[i].a ]
          after  == Drop(Tail(toks), Len(attrs))
          bound  == xlink \/ "xmlns:xlink" \in Range(names)
      IN  IF \/ Cardinality(Range(names)) # Len(names)
             \/ ("xlink:href" \in Range(names) /\ ~bound)
             \/ after = << >>
          THEN Fail
          ELSE IF Head(after).t = "selfclose"
               THEN [ok |-> TRUE, rest |-> Tail(after)]
          ELSE IF Head(after).t = "gt"
               THEN LET body == ParseContent(Tail(after), bound)
                    IN  IF body.ok /\ body.rest # << >>
                           /\ Head(body.rest) = Close(name)
                        THEN [ok |-> TRUE, rest |-> Tail(body.rest)]
                        ELSE Fail
          ELSE Fail
\* child elements and blank text, up to the first token that is neither
ParseContent(toks, xlink) ==
    LET t == SkipBlanks(toks)
    IN  IF t # << >> /\ Head(t).t = "open"
        THEN LET child == ParseElement(t, xlink)
             IN  IF child.ok THEN ParseContent(child.rest, xlink) ELSE Fail
        ELSE [ok |-> TRUE, rest |-> t]

\* doc.querySelector('parsererror') is null
ParsesAsXml(toks) ==
    LET root == ParseElement(SkipBlanks(toks), FALSE)
    IN  root.ok /\ SkipBlanks(root.rest) = << >>

\* The messages of the rejections.
ERR_PARSE   == "SVG parse failed"            \* sidepanel.tsx:125 'SVG 解析失败'
ERR_CONTEXT == "cannot create canvas context" \* sidepanel.tsx:165 '无法创建 canvas context'
ERR_LOAD    == "SVG image load failed"       \* sidepanel.tsx:185 'SVG 图片加载失败'
PNG_PREFIX  == "data:image/png;base64,"

RasterNotCalled ==
    [pc |-> "notCalled", cleaned |-> << >>, canvas |-> None, value |-> ""]

RasterIdle ==
    /\ svgString = << >>
    /\ target = [width |-> 0, height |-> 0]
    /\ raster = RasterNotCalled

\* sidepanel.tsx:110-148, 188  the executor up to img.src = dataUrl
SvgToDataUrl ==
    /\ raster.pc = "notCalled"
    /\ LET cleanedSvg == cleanSvgString(svgString)
       IN  raster' =
             IF ParsesAsXml(cleanedSvg)
             THEN [raster EXCEPT !.pc = "loading", !.cleaned = cleanedSvg]
             ELSE [raster EXCEPT !.pc = "rejected", !.cleaned = cleanedSvg,
                                 !.value = ERR_PARSE]
    /\ UNCHANGED << svgString, target, notRaster >>

\* sidepanel.tsx:153-176  img.onload; getContext('2d') may return null
ImgOnload ==
    /\ raster.pc = "loading"
    /\ \E ctx \in BOOLEAN :
         raster' =
           IF ctx
           THEN [raster EXCEPT !.pc = "resolved",
                               !.canvas = Some(target),
                               !.value = PNG_PREFIX]
           ELSE [raster EXCEPT !.pc = "rejected",
                               !.canvas = Some(target),
                               !.value = ERR_CONTEXT]
    /\ UNCHANGED << svgString, target, notRaster >>

\* sidepanel.tsx:178-186  img.onerror
ImgOnerror ==
    /\ raster.pc = "loading"
    /\ raster' = [raster EXCEPT !.pc = "rejected", !.value = ERR_LOAD]
    /\ UNCHANGED << svgString, target, notRaster >>

\* ---- the markup of the model
\* Root attributes as page outerHTML may carry them, in every combination.
RootAttrs ==
    { SelectSeq(<< Attr("xmlns", SVG_NS), Attr("xmlns:xlink", XLINK_NS),
                   Attr("width", "10") >>,
                LAMBDA tok : tok.a \in keep) :
        keep \in SUBSET { "xmlns", "xmlns:xlink", "width" } }

\* <rect/>, <use xlink:href="#a"/>, <use href="#a"/>, <svg xmlns="..."></svg>
Children ==
    { << Open("rect"), SelfClose >>,
      << Open("use"), Attr("xlink:href", "#a"), SelfClose >>,
      << Open("use"), Attr("href", "#a"), SelfClose >>,
      << Open("svg"), Attr("xmlns", SVG_NS), Gt, Close("svg") >> }

\* Child elements of the root in the markup of the model.
MaxChildren == 2

RECURSIVE ChildLists(_)
ChildLists(n) ==
    IF n = 0 THEN { << >> }
    ELSE LET shorter == ChildLists(n - 1)
         IN  shorter \cup { c \o rest : c \in Children, rest \in shorter }

\* Text between the tags: nothing, or a line break and an indent.
Gaps == { << >>, << Nl, Ws, Ws >> }

\* The root's end tag is there, or missing (an unterminated element).
Markups ==
    { << Open("svg") >> \o attrs \o << Gt >> \o gap \o kids \o gap
        \o (IF closed THEN << Close("svg") >> ELSE << >>) :
        attrs \in RootAttrs, kids \in ChildLists(MaxChildren),
        gap \in Gaps, closed \in BOOLEAN }

TargetSizes == { 1, 16 }

(***************************************************************************)
(* CLAIMS ABOUT THE RASTERIZER                                             *)
(***************************************************************************)
\* The default namespace declarations on the root tag of a markup string.
RootXmlnsCount(toks) ==
    LET t == SkipBlanks(toks)
        attrs == IF t = << >> THEN << >>
                 ELSE TakeWhile(Tail(t), LAMBDA tok : tok.t = "attr")
    IN  Cardinality({ i \in 1..Len(attrs) : attrs[i].a = "xmlns" })

\* C6 (as claimed): for every well-formed markup, whether or not its root tag
\* already carries xmlns or xmlns:xlink, and every target size > 0, svgToDataUrl
\* gets through normalization and parsing without a parse error, the normalized
\* markup has exactly one default namespace declaration on its root tag, and
\* once the image decodes the promise resolves with a PNG data URL drawn from a
\* canvas of exactly width x height.
C6_WellFormedMarkupRasterizes ==
    ( /\ raster.pc # "notCalled"
      /\ ParsesAsXml(svgString)
      /\ target.width > 0 /\ target.height > 0 ) =>
        /\ ~(raster.pc = "rejected" /\ raster.value = ERR_PARSE)
        /\ RootXmlnsCount(raster.cleaned) = 1
        /\ raster.pc = "resolved" =>
             /\ raster.value = PNG_PREFIX
             /\ raster.canvas = Some(target)

(***************************************************************************)
(* THE PANEL: handleDownload and downloadAllSizes                          *)
(* (sidepanel.tsx:198-236, 424-475)                                        *)
(***************************************************************************)
\* sidepanel.tsx:16-24
PRESET_SIZES ==
    << [width |-> 16,  height |-> 16,  label |-> "16x16"],
       [width |-> 32,  height |-> 32,  label |-> "32x32"],
       [width |-> 48,  height |-> 48,  label |-> "48x48"],
       [width |-> 128, height |-> 128, label |-> "128x128"],
       [width |-> 0,   height |-> 0,   label |-> "original"],
       [width |-> -1,  height |-> -1,  label |-> "all sizes"],
       [width |-> -2,  height |-> -2,  label |-> "custom"] >>

ERR_CUSTOM == "enter a valid custom size"  \* sidepanel.tsx:442 '请输入有效的自定义尺寸'
ERR_SAVE   == "download failed"            \* chrome.downloads.download rejected
ERR_ZIP    == "zip failed"                 \* zip.generateAsync rejected

\* The ids of the items of the model (an id is a position in the scan).
ItemIds == { 0, 1 }

\* The filenames of sidepanel.tsx:210, 223, 448, 459
PngName(id, w, h) == [kind |-> "png", id |-> id, width |-> w, height |-> h]
ZipName(id) == [kind |-> "zip", id |-> id, width |-> 0, height |-> 0]

\* a || b on numbers that are never NaN
Or0(a, b) == IF a # 0 THEN a ELSE b

NoItem == [id |-> -1, outerHTML |-> << >>, dimensions |-> [width |-> 0, height |-> 0]]

DlIdle == [pc |-> "idle", svg |-> NoItem, width |-> 0, height |-> 0,
           sizes |-> << >>, tasks |-> << >>, zip |-> {}]

\* raster: the sizes svgToDataUrl was called with, in call order;
\* downloads: the calls of chrome.downloads.download, in call order.
ReqNone == [mode |-> "none", custom |-> None, raster |-> << >>, downloads |-> << >>,
            done |-> FALSE, failed |-> FALSE, rasterFailed |-> FALSE,
            firstRejection |-> None]

HasItem(id) == \E i \in 1..Len(svgItems) : svgItems[i].id = id
Item(id) == svgItems[CHOOSE i \in 1..Len(svgItems) : svgItems[i].id = id]

\* downloadStatus[svg.id]?.loading
Loading(id) == IsSome(downloadStatus[id]) /\ Get(downloadStatus[id]).loading

\* sidepanel.tsx:425  selectedSizes[svg.id] || PRESET_SIZES[0]
SelectedSize(id) ==
    IF IsSome(selectedSizes[id]) THEN PRESET_SIZES[Get(selectedSizes[id])]
    ELSE PRESET_SIZES[1]

\* sidepanel.tsx:200  PRESET_SIZES.filter(size => size.width >= 0)
ArchiveSizes == SelectSeq(PRESET_SIZES, LAMBDA size : size.width >= 0)

\* How a call of svgToDataUrl on this markup can settle: "ok", or the message
\* of its rejection (sidepanel.tsx:105-195, see SvgToDataUrl above).
RasterOutcomes(markup) ==
    IF ParsesAsXml(cleanSvgString(markup))
    THEN { "ok", ERR_CONTEXT, ERR_LOAD }
    ELSE { ERR_PARSE }

\* mutant: the join waits for every promise and never rejects (allSettled)
PromiseAll_allSettled(tasks) ==
    IF \E k \in 1..Len(tasks) : tasks[k] = "pending" THEN "pending"
    ELSE "resolved"

\* sidepanel.tsx:215  Promise.all(promises): rejected as soon as one promise is,
\* resolved when all are
PromiseAll(tasks) ==
    IF \E k \in 1..Len(tasks) : tasks[k] = "rejected" THEN "rejected"
    ELSE IF \A k \in 1..Len(tasks) : tasks[k] = "resolved" THEN "resolved"
    ELSE "pending"

\* mutant: the catch records the error and leaves the loading flag set
Failed_stillLoading(message) == Some([loading |-> TRUE, error |-> Some(message)])

\* sidepanel.tsx:470-473  { loading: false, error: message }
Failed(message) == Some([loading |-> FALSE, error |-> Some(message)])
\* sidepanel.tsx:464-467  { loading: false }
Succeeded == Some([loading |-> FALSE, error |-> None])
\* sidepanel.tsx:426-429  { loading: true }
InFlight == Some([loading |-> TRUE, error |-> None])

\* mutant: a custom size is rejected only when it is missing
InvalidCustom_missingOnly(customSize) == ~IsSome(customSize)

\* sidepanel.tsx:441  !customSize || customSize.width <= 0 || customSize.height <= 0
InvalidCustom(customSize) ==
    \/ ~IsSome(customSize)
    \/ Get(customSize).width <= 0
    \/ Get(customSize).height <= 0

\* The entries of PRESET_SIZES the user of the model picks in each row: every
\* mode ("original" is a preset with size 0, and a row starts at 16x16) in the
\* first row, the archive export next to it in the second.
Selectable(id) == IF id = 0 THEN { 5, 6, 7 } ELSE { 6 }

\* The select of an item (sidepanel.tsx:615-625)
SelectSize ==
    \E id \in ItemIds :
      \E k \in Selectable(id) :
        /\ HasItem(id)
        /\ selectedSizes' = [selectedSizes EXCEPT ![id] = Some(k)]
        /\ UNCHANGED << svgItems, customSizes, downloadStatus, dl, req, notPanel >>

\* The sizes the custom inputs of the model store.
CustomSizeValues ==
    { [width |-> 0, height |-> 5], [width |-> 7, height |-> 3] }

\* updateGlobalSize (sidepanel.tsx:271-276); the inputs are rendered only for
\* an item whose selected size is "custom" (sidepanel.tsx:654)
SetCustomSize ==
    \E id \in ItemIds, size \in CustomSizeValues :
        /\ HasItem(id)
        /\ SelectedSize(id).width = -2
        /\ customSizes' = [customSizes EXCEPT ![id] = Some(size)]
        /\ UNCHANGED << svgItems, selectedSizes, downloadStatus, dl, req, notPanel >>

\* handleDownload (sidepanel.tsx:424-462) up to its first await; the button is
\* disabled while the item is loading (sidepanel.tsx:638)
HandleDownload ==
    \E id \in ItemIds :
        /\ HasItem(id)
        /\ ~Loading(id)
        /\ LET svg == Item(id)
               selectedSize == SelectedSize(id)
               customSize == customSizes[id]
               mode == IF selectedSize.width = -1 THEN "all"
                       ELSE IF selectedSize.width = -2 THEN "custom" ELSE "preset"
               start == [ReqNone EXCEPT !.mode = mode, !.custom = customSize]
               \* sidepanel.tsx:205-206, 453-454
               width == Or0(selectedSize.width, svg.dimensions.width)
               height == Or0(selectedSize.height, svg.dimensions.height)
           IN  CASE mode = "all" ->
                    \* downloadAllSizes: sizes.map starts every rasterization
                    /\ downloadStatus' = [downloadStatus EXCEPT ![id] = InFlight]
                    /\ dl' = [dl EXCEPT ![id] =
                                [DlIdle EXCEPT
                                   !.pc = "join", !.svg = svg,
                                   !.sizes = ArchiveSizes,
                                   !.tasks = [k \in 1..Len(ArchiveSizes) |-> "pending"]]]
                    /\ req' = [req EXCEPT ![id] =
                                [start EXCEPT !.raster =
                                   [k \in 1..Len(ArchiveSizes) |->
                                      [width  |-> Or0(ArchiveSizes[k].width, svg.dimensions.width),
                                       height |-> Or0(ArchiveSizes[k].height, svg.dimensions.height)]]]]
                 [] mode = "custom" /\ InvalidCustom(customSize) ->
                    \* thrown and caught before any await
                    /\ downloadStatus' = [downloadStatus EXCEPT ![id] = Failed(ERR_CUSTOM)]
                    /\ dl' = [dl EXCEPT ![id] = DlIdle]
                    /\ req' = [req EXCEPT ![id] =
                                [start EXCEPT !.done = TRUE, !.failed = TRUE]]
                 [] mode = "custom" /\ ~InvalidCustom(customSize) ->
                    /\ downloadStatus' = [downloadStatus EXCEPT ![id] = InFlight]
                    /\ dl' = [dl EXCEPT ![id] =
                                [DlIdle EXCEPT !.pc = "raster", !.svg = svg,
                                               !.width = Get(customSize).width,
                                               !.height = Get(customSize).height]]
                    /\ req' = [req EXCEPT ![id] =
                                [start EXCEPT !.raster =
                                   << [width |-> Get(customSize).width,
                                       height |-> Get(customSize).height] >>]]
                 [] mode = "preset" ->
                    /\ downloadStatus' = [downloadStatus EXCEPT ![id] = InFlight]
                    /\ dl' = [dl EXCEPT ![id] =
                                [DlIdle EXCEPT !.pc = "raster", !.svg = svg,
                                               !.width = width, !.height = height]]
                    /\ req' = [req EXCEPT ![id] =
                                [start EXCEPT !.raster =
                                   << [width |-> width, height |-> height] >>]]
        /\ UNCHANGED << svgItems, selectedSizes, customSizes, notPanel >>

\* The end of handleDownload for item id: the status it sets, the call gone.
Finish(id, status, failed, rasterFailed) ==
    /\ downloadStatus' = [downloadStatus EXCEPT ![id] = status]
    /\ dl' = [dl EXCEPT ![id] = DlIdle]
    /\ req' = [req EXCEPT ![id] =
                 [req[id] EXCEPT !.done = TRUE, !.failed = failed,
                                 !.rasterFailed = rasterFailed]]

\* sidepanel.tsx:445-450, 456-461  svgToDataUrl settles: on success the
\* save-as download is issued, on failure the catch records the message
RasterSettles ==
    \E id \in ItemIds :
        /\ dl[id].pc = "raster"
        /\ \E outcome \in RasterOutcomes(dl[id].svg.outerHTML) :
             IF outcome = "ok"
             THEN /\ dl' = [dl EXCEPT ![id].pc = "saving"]
                  /\ req' = [req EXCEPT ![id].downloads =
                               Append(@, [filename |-> PngName(dl[id].svg.id,
                                                               dl[id].width, dl[id].height),
                                          saveAs |-> TRUE, entries |-> {}])]
                  /\ UNCHANGED downloadStatus
             ELSE Finish(id, Failed(outcome), TRUE, TRUE)
        /\ UNCHANGED << svgItems, selectedSizes, customSizes, notPanel >>

\* sidepanel.tsx:446-450, 457-467  chrome.downloads.download settles
SaveSettles ==
    \E id \in ItemIds, ok \in BOOLEAN :
        /\ dl[id].pc = "saving"
        /\ IF ok THEN Finish(id, Succeeded, FALSE, FALSE)
           ELSE Finish(id, Failed(ERR_SAVE), TRUE, FALSE)
        /\ UNCHANGED << svgItems, selectedSizes, customSizes, notPanel >>

\* sidepanel.tsx:204-215, 229-235, 434-437  one rasterization of an archive
\* build settles.  Resolved: its PNG goes into the zip under its filename (an
\* entry of the same name is replaced).  The join is then looked at: when it
\* rejects, downloadAllSizes returns {success: false, error} and handleDownload
\* records the error; the rasterizations still pending run on, but nothing
\* reads the zip they write to, so the model drops them.
TaskSettles ==
    \E id \in ItemIds :
        /\ dl[id].pc = "join"
        /\ \E k \in 1..Len(dl[id].tasks), outcome \in RasterOutcomes(dl[id].svg.outerHTML) :
             /\ dl[id].tasks[k] = "pending"
             /\ LET svg == dl[id].svg
                    width == Or0(dl[id].sizes[k].width, svg.dimensions.width)
                    height == Or0(dl[id].sizes[k].height, svg.dimensions.height)
                    tasks == [dl[id].tasks EXCEPT
                                ![k] = IF outcome = "ok" THEN "resolved" ELSE "rejected"]
                    zip == IF outcome = "ok"
                           THEN dl[id].zip \cup { PngName(svg.id, width, height) }
                           ELSE dl[id].zip
                    first == IF outcome # "ok" /\ ~IsSome(req[id].firstRejection)
                             THEN Some(outcome) ELSE req[id].firstRejection
                IN  CASE PromiseAll(tasks) = "pending" ->
                         /\ dl' = [dl EXCEPT ![id].tasks = tasks, ![id].zip = zip]
                         /\ req' = [req EXCEPT ![id].firstRejection = first]
                         /\ UNCHANGED downloadStatus
                      [] PromiseAll(tasks) = "resolved" ->
                         /\ dl' = [dl EXCEPT ![id].tasks = tasks, ![id].zip = zip,
                                             ![id].pc = "zipping"]
                         /\ req' = [req EXCEPT ![id].firstRejection = first]
                         /\ UNCHANGED downloadStatus
                      [] PromiseAll(tasks) = "rejected" ->
                         /\ downloadStatus' = [downloadStatus EXCEPT ![id] = Failed(outcome)]
                         /\ dl' = [dl EXCEPT ![id] = DlIdle]
                         /\ req' = [req EXCEPT ![id] =
                                      [req[id] EXCEPT !.done = TRUE, !.failed = TRUE,
                                                      !.rasterFailed = TRUE,
                                                      !.firstRejection = first]]
        /\ UNCHANGED << svgItems, selectedSizes, customSizes, notPanel >>

\* sidepanel.tsx:218-225  zip.generateAsync settles: the archive is saved
ZipSettles ==
    \E id \in ItemIds, ok \in BOOLEAN :
        /\ dl[id].pc = "zipping"
        /\ IF ok
           THEN /\ dl' = [dl EXCEPT ![id].pc = "savingZip"]
                /\ req' = [req EXCEPT ![id].downloads =
                             Append(@, [filename |-> ZipName(dl[id].svg.id),
                                        saveAs |-> TRUE, entries |-> dl[id].zip])]
                /\ UNCHANGED downloadStatus
           ELSE Finish(id, Failed(ERR_ZIP), TRUE, FALSE)
        /\ UNCHANGED << svgItems, selectedSizes, customSizes, notPanel >>

\* sidepanel.tsx:221-228, 434-437, 464-467  the download of the archive settles
ZipSaveSettles ==
    \E id \in ItemIds, ok \in BOOLEAN :
        /\ dl[id].pc = "savingZip"
        /\ IF ok THEN Finish(id, Succeeded, FALSE, FALSE)
           ELSE Finish(id, Failed(ERR_SAVE), TRUE, FALSE)
        /\ UNCHANGED << svgItems, selectedSizes, customSizes, notPanel >>

\* ---- the items of the model
BareMarkup == << Open("svg"), Gt, Open("rect"), SelfClose, Close("svg") >>
XmlnsMarkup ==
    << Open("svg"), Attr("xmlns", SVG_NS), Gt, Open("rect"), SelfClose, Close("svg") >>

MakeItem(id, markup, w, h) ==
    [id |-> id, outerHTML |-> markup, dimensions |-> [width |-> w, height |-> h]]

\* Scan results: a 100 x 50 graphic and icons of a preset's size, markup with
\* and without a namespace declaration.
ItemLists ==
    { << MakeItem(0, BareMarkup, 100, 50), MakeItem(1, BareMarkup, 48, 48) >>,
      << MakeItem(0, XmlnsMarkup, 100, 50), MakeItem(1, BareMarkup, 16, 16) >> }

PanelInit0 ==
    /\ selectedSizes = [id \in ItemIds |-> None]
    /\ customSizes = [id \in ItemIds |-> None]
    /\ downloadStatus = [id \in ItemIds |-> None]
    /\ dl = [id \in ItemIds |-> DlIdle]
    /\ req = [id \in ItemIds |-> ReqNone]

PanelIdle == svgItems = << >> /\ PanelInit0

(***************************************************************************)
(* Claims about the Panel                                                  *)
(***************************************************************************)
\* C7: a download request in "custom" mode whose stored custom size is missing
\* or has width <= 0 or height <= 0 ends with the item's error set to the
\* invalid-size message and loading false, without any call of svgToDataUrl or
\* of chrome.downloads.download; and every rasterization a custom request
\* starts has width > 0 and height > 0.
C7_CustomSizeValidated ==
    \A id \in ItemIds :
        LET r == req[id]
            c == r.custom
        IN  r.mode = "custom" =>
              /\ (~IsSome(c) \/ Get(c).width <= 0 \/ Get(c).height <= 0) =>
                    /\ r.done
                    /\ downloadStatus[id] = Some([loading |-> FALSE, error |-> Some(ERR_CUSTOM)])
                    /\ r.raster = << >>
                    /\ r.downloads = << >>
              /\ \A i \in 1..Len(r.raster) :
                    r.raster[i].width > 0 /\ r.raster[i].height > 0

\* A custom request with a stored size of width 0 has been rejected.
C7_Witness ==
    \E id \in ItemIds :
        /\ req[id].mode = "custom"
        /\ req[id].done
        /\ IsSome(req[id].custom)
        /\ Get(req[id].custom).width = 0

StepErrors == { ERR_PARSE, ERR_CONTEXT, ERR_LOAD, ERR_CUSTOM, ERR_ZIP, ERR_SAVE }

C8_StatusOfRequest ==
    \A id \in ItemIds :
        LET r == req[id]
            st == downloadStatus[id]
        IN  /\ (r.mode # "none" /\ ~r.done) =>
                 st = Some([loading |-> TRUE, error |-> None])
            /\ (r.mode # "none" /\ r.done) =>
                 /\ IsSome(st)
                 /\ ~Get(st).loading
                 /\ IsSome(Get(st).error) <=> r.failed
                 /\ r.failed => Get(Get(st).error) \in StepErrors
                 /\ ~r.failed => Len(r.downloads) = 1 /\ r.downloads[1].saveAs
                 /\ r.rasterFailed => r.downloads = << >>

C8_OtherItemsUntouched ==
    \A i, j \in ItemIds :
        (i # j /\ req'[i] # req[i]) => downloadStatus'[j] = downloadStatus[j]

\* C8: for every download request, in every mode: while it is in flight the
\* item is loading with no error; once it has settled the loading flag is
\* false and the error is set exactly when a step failed (parse, canvas
\* context, image decode, invalid custom size, archive, save); a successful
\* request issued exactly one save-as download and a request whose
\* rasterization failed issued none; every failure ends in the item's status;
\* and no step of a request changes the status of another item.
C8_ErrorsStayPerItem ==
    []C8_StatusOfRequest /\ [][C8_OtherItemsUntouched]_vars

\* One item's rasterization has failed and its row shows the error while the
\* other item's archive export is still in flight.
C8_Witness ==
    \E i, j \in ItemIds :
        /\ i # j
        /\ req[i].done /\ req[i].rasterFailed
        /\ downloadStatus[i] = Some([loading |-> FALSE, error |-> Some(ERR_LOAD)])
        /\ req[j].mode = "all" /\ ~req[j].done
        /\ downloadStatus[j] = Some([loading |-> TRUE, error |-> None])

\* C9: for every item, whatever its resolved dimensions, a successful "all
\* sizes" export saves one archive named svg_<id>_all_sizes.zip holding
\* exactly five PNG entries, for 16x16, 32x32, 48x48, 128x128 and the item's
\* own dimensions, each named svg_<id>_<width>x<height>.png.
C9_FiveEntries ==
    \A id \in ItemIds :
        (req[id].mode = "all" /\ req[id].done /\ ~req[id].failed) =>
            /\ Len(req[id].downloads) = 1
            /\ req[id].downloads[1].filename = ZipName(id)
            /\ req[id].downloads[1].entries =
                  { PngName(id, 16, 16), PngName(id, 32, 32), PngName(id, 48, 48),
                    PngName(id, 128, 128),
                    PngName(id, Item(id).dimensions.width, Item(id).dimensions.height) }
            /\ Cardinality(req[id].downloads[1].entries) = 5

\* C10: in an archive export the five rasterizations are all started before
\* any settles, and the join is fail-fast: as soon as one rejects, under any
\* settling order, the export has ended with no archive generated, no download
\* issued and the item showing the message of that first rejection; an
\* archive is generated and its one download issued only after all five have
\* resolved.
C10_FailFastJoin ==
    \A id \in ItemIds :
        LET r == req[id]
            d == dl[id]
        IN  r.mode = "all" =>
              /\ Len(r.raster) = 5
              /\ d.pc = "join" => Len(d.tasks) = 5 /\ r.downloads = << >>
              /\ IsSome(r.firstRejection) =>
                    /\ r.done /\ r.failed
                    /\ d.pc = "idle"
                    /\ r.downloads = << >>
                    /\ downloadStatus[id] =
                          Some([loading |-> FALSE, error |-> r.firstRejection])
              /\ d.pc \in { "zipping", "savingZip" } =>
                    \A k \in 1..Len(d.tasks) : d.tasks[k] = "resolved"
              /\ Len(r.downloads) <= 1
              /\ d.pc = "savingZip" => Len(r.downloads) = 1
              /\ (r.done /\ ~r.failed) => Len(r.downloads) = 1

\* An export whose first four rasterizations resolved and whose fifth was
\* rejected has ended with that rejection's message.
C10_Witness ==
    \E id \in ItemIds :
        /\ req[id].mode = "all"
        /\ req[id].done
        /\ req[id].firstRejection = Some(ERR_CONTEXT)
        /\ downloadStatus[id] = Some([loading |-> FALSE, error |-> Some(ERR_CONTEXT)])

(***************************************************************************)
(* THE PANEL'S SCANS: scanSVGs, the tab observer effect and retryOnError   *)
(* (sidepanel.tsx:477-561)                                                 *)
(*                                                                         *)
(* A scanSVGs call in flight is [origin, pc, tab]: origin is "retry" for   *)
(* the calls retryOnError makes and "panel" for all others, pc is "query"  *)
(* while chrome.tabs.query is awaited and "message" while                  *)
(* chrome.tabs.sendMessage is.  React state setters take effect in the step that calls them; the   *)
(* observer effect re-runs in a step of its own after currentTabId changed. *)
(***************************************************************************)
\* External events (tab activations, load-complete updates, refresh clicks)
\* in one behaviour.
MaxEvents == 1

\* The tabs of the browser window.
Tabs == { 1, 2 }

ERR_NO_TAB  == "no active tab"     \* sidepanel.tsx:486 '无法获取当前标签页'
ERR_MESSAGE == "scan message failed" \* the message of a rejected sendMessage

\* n counts the tab events and refresh clicks; owed holds from a tab event
\* that calls for a scan until a scan starts.
NoEvents == [n |-> 0, owed |-> FALSE]

RetryNotStarted ==
    [pc |-> "notStarted", i |-> 0, attempts |-> 0, delays |-> << >>, lastFailed |-> FALSE]

\* The state after construction: nothing mounted, isScanning initially true
\* (sidepanel.tsx:246-252).
TabsInit0 ==
    /\ isScanning = TRUE
    /\ scanError = None
    /\ currentTabId = None
    /\ effect = [mounted |-> FALSE, pending |-> FALSE, listenerTab |-> None]
    /\ scans = << >>
    /\ retry = RetryNotStarted
    /\ events = NoEvents
    /\ settled = None

TabsIdle == activeTab = None /\ TabsInit0

\* What sendMessage can settle with: a rejection (no content script in the
\* tab), a response without svgData, or a response with a list.
ScanResults == ItemLists
MessageOutcomes ==
    { [kind |-> "rejected", list |-> << >>], [kind |-> "noData", list |-> << >>] }
    \cup { [kind |-> "svgData", list |-> l] : l \in ScanResults }

NewScan(origin) == [origin |-> origin, pc |-> "query", tab |-> 0]

Remove(seq, k) == SubSeq(seq, 1, k - 1) \o SubSeq(seq, k + 1, Len(seq))

\* How the promise of scanSVGs settles when the scan failed or not: the
\* try/catch/finally of sidepanel.tsx:481-503 catches every error, so the
\* promise never rejects.
ScanPromise(failed) == "resolved"

\* sidepanel.tsx:547-557  retryOnError after fn() settled with the outcome;
\* the backoff is recorded in delays, the next attempt has pc "awaiting"
retryOnError(r, outcome, maxRetries) ==
    IF outcome = "resolved" THEN [r EXCEPT !.pc = "returned"]
    ELSE IF r.i = maxRetries - 1 THEN [r EXCEPT !.pc = "threw"]
    ELSE [r EXCEPT !.i = @ + 1, !.pc = "awaiting", !.attempts = @ + 1,
                   !.delays = Append(@, 1000 * (r.i + 1))]

\* sidepanel.tsx:478-479  the synchronous head of scanSVGs, called once
StartScan(origin) ==
    /\ isScanning' = TRUE
    /\ scanError' = None
    /\ scans' = Append(scans, NewScan(origin))

\* sidepanel.tsx:507-536, 559-561  the two effects of the first render: the
\* observer registers its listeners and scans; retryOnError(scanSVGs) makes
\* its first attempt
Mount ==
    /\ ~effect.mounted
    /\ effect' = [mounted |-> TRUE, pending |-> FALSE, listenerTab |-> currentTabId]
    /\ isScanning' = TRUE
    /\ scanError' = None
    /\ scans' = << NewScan("panel"), NewScan("retry") >>
    /\ retry' = [RetryNotStarted EXCEPT !.pc = "awaiting", !.attempts = 1]
    /\ UNCHANGED << currentTabId, activeTab, events, settled, svgItems, notTabs >>

\* sidepanel.tsx:507-536  the observer effect re-runs after currentTabId
\* changed: new listeners closed over the new id, and a scan
RunEffect ==
    /\ effect.mounted /\ effect.pending
    /\ effect' = [effect EXCEPT !.pending = FALSE, !.listenerTab = currentTabId]
    /\ StartScan("panel")
    /\ events' = [events EXCEPT !.owed = FALSE]
    /\ UNCHANGED << currentTabId, activeTab, retry, settled, svgItems, notTabs >>

\* mutant: the observer scans on the activation of the tab it already shows
ShouldScanOnActivated_same(listenerTab, tabId) == listenerTab = Some(tabId)

\* sidepanel.tsx:509  currentTabId !== activeInfo.tabId
ShouldScanOnActivated(listenerTab, tabId) == listenerTab # Some(tabId)

\* sidepanel.tsx:508-512  chrome.tabs.onActivated -> handleTabChange
TabActivated ==
    \E t \in Tabs :
        /\ effect.mounted
        /\ events.n < MaxEvents
        /\ activeTab # Some(t)
        /\ activeTab' = Some(t)
        /\ IF ShouldScanOnActivated(effect.listenerTab, t)
           THEN /\ StartScan("panel")
                /\ events' = [n |-> events.n + 1, owed |-> FALSE]
           ELSE /\ events' = [n |-> events.n + 1,
                              owed |-> events.owed \/ Some(t) # currentTabId]
                /\ UNCHANGED << isScanning, scanError, scans >>
        /\ UNCHANGED << currentTabId, effect, retry, settled, svgItems, notTabs >>

\* sidepanel.tsx:514-522  chrome.tabs.onUpdated with status 'complete'
TabUpdated ==
    \E t \in Tabs :
        /\ effect.mounted
        /\ events.n < MaxEvents
        /\ IF Some(t) = effect.listenerTab
           THEN /\ StartScan("panel")
                /\ events' = [n |-> events.n + 1, owed |-> FALSE]
           ELSE /\ events' = [n |-> events.n + 1,
                              owed |-> events.owed \/ Some(t) = currentTabId]
                /\ UNCHANGED << isScanning, scanError, scans >>
        /\ UNCHANGED << currentTabId, activeTab, effect, retry, settled, svgItems, notTabs >>

\* sidepanel.tsx:570-576  the refresh button, disabled while isScanning
RefreshClick ==
    /\ effect.mounted
    /\ ~isScanning
    /\ events.n < MaxEvents
    /\ events' = [n |-> events.n + 1, owed |-> FALSE]
    /\ StartScan("panel")
    /\ UNCHANGED << currentTabId, activeTab, effect, retry, settled, svgItems, notTabs >>

\* The end of scan k (sidepanel.tsx:497-503): finally clears isScanning; when
\* the scan is the one retryOnError awaits, the loop goes on, starting its
\* next attempt at once when it retries.
ScanEnds(k, failed, list) ==
    LET rest == Remove(scans, k)
        r == IF scans[k].origin = "retry"
             THEN retryOnError([retry EXCEPT !.lastFailed = failed],
                               ScanPromise(failed), 3)
             ELSE retry
        again == scans[k].origin = "retry" /\ r.pc = "awaiting"
    IN  /\ retry' = r
        /\ scans' = IF again THEN Append(rest, NewScan("retry")) ELSE rest
        /\ isScanning' = again
        /\ settled' = Some([failed |-> failed, list |-> list])

\* sidepanel.tsx:482-489  chrome.tabs.query settles
QuerySettles ==
    \E k \in 1..Len(scans) :
        /\ scans[k].pc = "query"
        /\ IF ~IsSome(activeTab)
           THEN \* throw, catch: setScanError, setSvgItems([])
                /\ ScanEnds(k, TRUE, << >>)
                /\ scanError' = Some(ERR_NO_TAB)
                /\ svgItems' = << >>
                /\ UNCHANGED << currentTabId, effect >>
           ELSE /\ currentTabId' = activeTab
                /\ effect' = [effect EXCEPT !.pending = @ \/ currentTabId # activeTab]
                /\ scans' = [scans EXCEPT ![k].pc = "message", ![k].tab = Get(activeTab)]
                /\ UNCHANGED << isScanning, scanError, retry, settled, svgItems >>
        /\ UNCHANGED << activeTab, events, notTabs >>

\* sidepanel.tsx:491-503  chrome.tabs.sendMessage settles
MessageSettles ==
    \E k \in 1..Len(scans), outcome \in MessageOutcomes :
        /\ scans[k].pc = "message"
        /\ ScanEnds(k, outcome.kind = "rejected", outcome.list)
        /\ svgItems' = outcome.list
        /\ scanError' = IF outcome.kind = "rejected" THEN Some(ERR_MESSAGE) ELSE scanError
        /\ UNCHANGED << currentTabId, activeTab, effect, events, notTabs >>

(***************************************************************************)
(* Claims about the Panel's scans                                          *)
(***************************************************************************)
\* C11: the initial scan is retried: when retryOnError has finished, it made
\* at most three attempts, with backoffs of 1000 ms and then 2000 ms between
\* them, and it stopped before the third attempt only after an attempt that
\* succeeded.
C11_RetriesFailedScan ==
    retry.pc \in { "returned", "threw" } =>
        /\ retry.attempts <= 3
        /\ retry.delays = SubSeq(<< 1000, 2000 >>, 1, retry.attempts - 1)
        /\ retry.lastFailed => retry.attempts = 3

\* C12: when the scan that settled last succeeded, the panel shows the list
\* it returned and no scan error; and with no scan in flight a scan error is
\* shown only together with an empty list.
C12_SuccessClearsError ==
    /\ (IsSome(settled) /\ ~Get(settled).failed) =>
          svgItems = Get(settled).list /\ scanError = None
    /\ scans = << >> => (IsSome(scanError) => svgItems = << >>)

Quiescent == scans = << >> /\ ~effect.pending

\* C15: every activation of a tab other than the current one and every
\* load-complete update of the current tab is followed by the start of a
\* scan, and the scans it causes end: from every state the panel reaches a
\* state with no scan in flight and no re-run of the observer effect pending,
\* provided every tab query and every scan message settles.
C15_ScansFollowEvents ==
    /\ events.owed ~> ~events.owed
    /\ ~Quiescent ~> Quiescent

\* After a switch to tab 2 the panel has scanned it and is at rest.
C15_Witness ==
    /\ effect.mounted
    /\ events.n >= 1
    /\ Quiescent
    /\ activeTab = Some(2)
    /\ currentTabId = Some(2)
    /\ effect.listenerTab = Some(2)
    /\ IsSome(settled) /\ ~Get(settled).failed

\* C16: isScanning is true in every state in which a scan is in flight.
C16_ScanningWhileInFlight ==
    scans # << >> => isScanning

\* The panel at rest after its mount-time scans of tab 1 ended well, the
\* last of them with the list the panel shows.
TabsAfterScan ==
    /\ isScanning = FALSE
    /\ scanError = None
    /\ currentTabId = Some(1)
    /\ activeTab = Some(1)
    /\ effect = [mounted |-> TRUE, pending |-> FALSE, listenerTab |-> Some(1)]
    /\ scans = << >>
    /\ retry = [RetryNotStarted EXCEPT !.pc = "returned", !.attempts = 1]
    /\ settled = Some([failed |-> FALSE, list |-> svgItems])

(***************************************************************************)
(* JAVASCRIPT NUMBERS OF processImage                                      *)
(*                                                                         *)
(* processImage divides and multiplies, so its numbers are IEEE 754        *)
(* doubles and every operation rounds to 53 significant bits, to nearest,  *)
(* ties to even.  A magnitude is a binary numeral written as the set of    *)
(* the exponents of its one-bits: {3, 0, -2} is 8 + 1 + 1/4.  Exponents    *)
(* run over -FracBits..MaxExp; every double the model meets (between 2^-11    *)
(* and 2^19, or a difference or a half of two such) is exactly such a      *)
(* numeral.  A signed number is [neg, mag].                                *)
(***************************************************************************)
FracBits == 72
MaxExp == 20
Mantissa == 53

MinExp == 0 - FracBits
Exps == MinExp..MaxExp

RECURSIVE Pow2(_)
Pow2(n) == IF n = 0 THEN 1 ELSE 2 * Pow2(n - 1)

\* 2^m modulo d, by repeated squaring
RECURSIVE PowMod(_, _)
PowMod(m, d) ==
    IF m = 0 THEN 1 % d
    ELSE LET h == PowMod(m \div 2, d)
         IN  (((h * h) % d) * (IF m % 2 = 1 THEN 2 ELSE 1)) % d

Top(a) == CHOOSE e \in a : \A f \in a : f <= e

\* The numeral of a non-negative integer below 2^MaxExp.
BigFromInt(n) == { e \in 0..(MaxExp - 1) : (n \div Pow2(e)) % 2 = 1 }

\* -1, 0, 1 as a < b, a = b, a > b
BigCmp(a, b) ==
    LET diff == (a \ b) \cup (b \ a)
    IN  IF diff = {} THEN 0 ELSE IF Top(diff) \in a THEN 1 ELSE -1

\* a + b: a carry enters bit e from the nearest lower bit set in both, when
\* every bit between is set in exactly one.
BigAdd(a, b) ==
    LET both == a \cap b
        Carry(e) == \E j \in both :
                        j < e /\ \A k \in (j + 1)..(e - 1) : (k \in a) # (k \in b)
    IN  { e \in Exps : ((e \in a) # (e \in b)) # Carry(e) }

\* a - b for a >= b: a borrow enters bit e from the nearest lower bit set in
\* b only, when no bit between is set in a only.
BigSub(a, b) ==
    LET owed == b \ a
        Borrow(e) == \E j \in owed :
                        j < e /\ \A k \in (j + 1)..(e - 1) : ~(k \in a /\ k \notin b)
    IN  { e \in Exps : ((e \in a) # (e \in b)) # Borrow(e) }

BigDouble(a) == { e + 1 : e \in a }
BigHalf(a) == { e - 1 : e \in a }

\* k * a for an integer k >= 0, by the binary digits of k
RECURSIVE BigMulInt(_, _)
BigMulInt(k, a) ==
    IF k = 0 THEN { }
    ELSE LET rest == BigDouble(BigMulInt(k \div 2, a))
         IN  IF k % 2 = 1 THEN BigAdd(rest, a) ELSE rest

\* floor(n / d * 2^-MinExp) * 2^MinExp for integers n >= 0, d > 0: the quotient
\* to -MinExp binary places.  Bit e < 0 is the next digit of the long
\* division, floor(2 * r / d) for the remainder r = n * 2^(-e-1) mod d.
BigDivInt(n, d) ==
    { e \in Exps :
        IF e >= 0 THEN ((n \div d) \div Pow2(e)) % 2 = 1
        ELSE (2 * (((n % d) * PowMod(-e - 1, d)) % d)) \div d = 1 }
\* whether the quotient has bits below MinExp
DivInexact(n, d) == ((n % d) * PowMod(-MinExp, d)) % d # 0

\* Round a numeral (with sticky: a non-zero part below its last bit) to
\* Mantissa significant bits, to nearest, ties to even.
RoundToDouble(a, sticky) ==
    IF a = { } THEN a
    ELSE LET last  == Top(a) - Mantissa + 1      \* the lowest bit kept
             kept  == { e \in a : e >= last }
             below == sticky \/ \E e \in a : e < last - 1
             up    == (last - 1) \in a /\ (below \/ last \in a)
         IN  IF up THEN BigAdd(kept, { last }) ELSE kept

\* The double operations of processImage on non-negative operands.
\* n / d for integers n >= 0, d > 0
DoubleDiv(n, d) ==
    [neg |-> FALSE, mag |-> RoundToDouble(BigDivInt(n, d), DivInexact(n, d))]
\* Math.max, which would cover the box instead of fitting into it
DoubleMax_cover(x, y) == IF BigCmp(x.mag, y.mag) >= 0 THEN x ELSE y
\* Math.min
DoubleMin(x, y) == IF BigCmp(x.mag, y.mag) <= 0 THEN x ELSE y
\* k * x for an integer k >= 0
DoubleMulInt(k, x) ==
    [neg |-> FALSE, mag |-> RoundToDouble(BigMulInt(k, x.mag), FALSE)]
\* n - x for an integer n >= 0 and x >= 0
DoubleIntMinus(n, x) ==
    LET big == BigFromInt(n)
    IN  IF BigCmp(big, x.mag) >= 0
        THEN [neg |-> FALSE, mag |-> RoundToDouble(BigSub(big, x.mag), FALSE)]
        ELSE [neg |-> TRUE, mag |-> RoundToDouble(BigSub(x.mag, big), FALSE)]
\* x / 2
DoubleHalf(x) == [neg |-> x.neg, mag |-> BigHalf(x.mag)]

(***************************************************************************)
(* THE OFFSCREEN CONVERTER (src/contents/offscreen/index.ts)               *)
(*                                                                         *)
(* The listener registered at index.ts:57 is an async function: it hands   *)
(* runtime.onMessage a Promise, never the literal true.  Whether the       *)
(* message port outlives the listener's synchronous part is then up to the *)
(* browser: one that waits for a returned Promise keeps it open            *)
(* (off.promiseAware), one that asks for the literal true closes it as soon *)
(* as the listener returns, and a later sendResponse reaches nobody.  The  *)
(* model takes either.                                                     *)
(***************************************************************************)
ERR_OFF_LOAD == "SVG load failed" \* index.ts:13 'SVG 加载失败'
ERR_OFF_CTX == "cannot create canvas context" \* index.ts:23 '无法创建 canvas context'
ERR_OFF_DRAW == "message of the thrown Error" \* index.ts:48 what drawImage or toDataURL threw
ERR_OFF_UNKNOWN == "unknown error" \* index.ts:69 '未知错误'

BoxDims == { 1, 16, 100 }
ImageDims == { 1, 3, 11, 49 }

OffMessages ==
    { [target |-> t, type |-> y, data |-> [width |-> w, height |-> h]] :
        t \in { "offscreen", "background" }, y \in { "convert-svg", "scan-svg" },
        w \in BoxDims, h \in BoxDims }

OffNotCalled(aware) ==
    [pc |-> "waiting", promiseAware |-> aware, port |-> "unopened",
     image |-> None, canvas |-> None, drawn |-> None, result |-> None,
     calls |-> << >>, delivered |-> << >>]

OffIdle ==
    /\ offMsg = [target |-> "background", type |-> "scan-svg",
                 data |-> [width |-> 1, height |-> 1]]
    /\ off = OffNotCalled(FALSE)

\* index.ts:58
ForConverter(message) ==
    message.target = "offscreen" /\ message.type = "convert-svg"

\* index.ts:29-35  the rectangle handed to drawImage
DrawRect(iw, ih, width, height) ==
    LET scale        == DoubleMin(DoubleDiv(width, iw), DoubleDiv(height, ih))
        scaledWidth  == DoubleMulInt(iw, scale)
        scaledHeight == DoubleMulInt(ih, scale)
    IN  [x |-> DoubleHalf(DoubleIntMinus(width, scaledWidth)),
         y |-> DoubleHalf(DoubleIntMinus(height, scaledHeight)),
         width |-> scaledWidth, height |-> scaledHeight]

\* How processImage settles.
Resolved(v) == [ok |-> TRUE, value |-> v]
Rejected(m) == [ok |-> FALSE, value |-> m]
\* index.ts:45  the PNG is the canvas with the image drawn into the rectangle
PngOf(canvas, rect) == [canvas |-> canvas, rect |-> rect]

\* index.ts:65-70  the argument of sendResponse
ResponseOf(result) ==
    IF result.ok
    THEN [success |-> TRUE, dataUrl |-> Some(result.value), error |-> None]
    ELSE [success |-> FALSE, dataUrl |-> None, error |-> Some(result.value)]

\* index.ts:59-72  the listener resumes after its await: it calls sendResponse
\* once, which reaches the sender only over an open port, and returns.
Respond(o, result) ==
    [o EXCEPT !.pc = "returned",
              !.result = Some(result),
              !.calls = Append(@, ResponseOf(result)),
              !.delivered = IF o.port = "open"
                            THEN Append(@, ResponseOf(result)) ELSE @,
              !.port = "closed"]

\* index.ts:57-60,73  the listener runs up to its await (img.src is set), or
\* falls through for a message that is not its own.
OnMessage ==
    /\ off.pc = "waiting"
    /\ off' = IF ForConverter(offMsg)
              THEN [off EXCEPT !.pc = "loading",
                               !.port = IF off.promiseAware THEN "open"
                                        ELSE "closed"]
              ELSE [off EXCEPT !.pc = "returned", !.port = "closed"]
    /\ UNCHANGED << offMsg, notOff >>

\* index.ts:16-50  img.onload, then the rest of the listener
OffOnload ==
    /\ off.pc = "loading"
    /\ \E iw \in ImageDims, ih \in ImageDims,
          ctx \in { "2d", "null", "throwsError", "throwsOther" } :
        LET width  == offMsg.data.width
            height == offMsg.data.height
            canvas == [width |-> width, height |-> height]
            rect   == DrawRect(iw, ih, width, height)
            result == CASE ctx = "null" -> Rejected(ERR_OFF_CTX)
                        [] ctx = "throwsError" -> Rejected(ERR_OFF_DRAW)
                        [] ctx = "throwsOther" -> Rejected(ERR_OFF_UNKNOWN)
                        [] OTHER -> Resolved(PngOf(canvas, rect))
        IN  off' = Respond(
                [off EXCEPT !.image = Some([width |-> iw, height |-> ih]),
                            !.canvas = Some(canvas),
                            !.drawn = IF ctx = "2d" THEN Some(rect) ELSE None],
                result)
    /\ UNCHANGED << offMsg, notOff >>

\* index.ts:12-14  img.onerror, then the rest of the listener
OffOnerror ==
    /\ off.pc = "loading"
    /\ off' = Respond(off, Rejected(ERR_OFF_LOAD))
    /\ UNCHANGED << offMsg, notOff >>

(***************************************************************************)
(* CLAIMS ABOUT THE OFFSCREEN CONVERTER                                    *)
(***************************************************************************)

\* C13: every message with target "offscreen" and type "convert-svg" is
\* answered with exactly one response, delivered to the sender once the
\* conversion has settled: {success: true, dataUrl} when processImage resolved,
\* {success: false, error: message} when it rejected; any other message gets no
\* response from this listener, and nothing is delivered before the conversion
\* settles.
C13_ExactlyOneResponse ==
    /\ off.pc # "returned" => off.delivered = << >>
    /\ (off.pc = "returned" /\ ~ForConverter(offMsg)) => off.delivered = << >>
    /\ (off.pc = "returned" /\ ForConverter(offMsg)) =>
           /\ IsSome(off.result)
           /\ off.delivered = << ResponseOf(Get(off.result)) >>

\* The geometry of a draw, read off the state after drawImage ran.
Drawn == off.pc = "returned" /\ IsSome(off.drawn)
Rect == Get(off.drawn)
Img == Get(off.image)
Box == offMsg.data

\* W - s as a signed numeral, exactly
ExactIntMinus(n, s) ==
    IF BigCmp(BigFromInt(n), s) >= 0
    THEN [neg |-> FALSE, mag |-> BigSub(BigFromInt(n), s)]
    ELSE [neg |-> TRUE, mag |-> BigSub(s, BigFromInt(n))]

\* 2^-30, far above the rounding error of a double near 100 and far below a
\* pixel
Tolerance == { -30 }

\* |a - b| <= Tolerance for magnitudes, and for signed numbers
Near(a, b) ==
    IF BigCmp(a, b) >= 0 THEN BigCmp(BigSub(a, b), Tolerance) <= 0
    ELSE BigCmp(BigSub(b, a), Tolerance) <= 0
SignedNear(p, q) ==
    IF p.neg = q.neg THEN Near(p.mag, q.mag)
    ELSE BigCmp(BigAdd(p.mag, q.mag), Tolerance) <= 0

\* C14 as stated: for every decoded image iw x ih and box W x H the drawn
\* rectangle satisfies scaledWidth * ih = scaledHeight * iw, scaledWidth <= W
\* and scaledHeight <= H with equality on at least one axis, x = (W -
\* scaledWidth)/2 and y = (H - scaledHeight)/2, neither negative, and the canvas
\* is exactly W x H -- all as exact equalities of the numbers the code computed.
C14_ExactGeometry ==
    Drawn =>
        /\ BigMulInt(Img.height, Rect.width.mag) = BigMulInt(Img.width, Rect.height.mag)
        /\ BigCmp(Rect.width.mag, BigFromInt(Box.width)) <= 0
        /\ BigCmp(Rect.height.mag, BigFromInt(Box.height)) <= 0
        /\ \/ Rect.width.mag = BigFromInt(Box.width)
           \/ Rect.height.mag = BigFromInt(Box.height)
        /\ [neg |-> Rect.x.neg, mag |-> BigDouble(Rect.x.mag)]
               = ExactIntMinus(Box.width, Rect.width.mag)
        /\ [neg |-> Rect.y.neg, mag |-> BigDouble(Rect.y.mag)]
               = ExactIntMinus(Box.height, Rect.height.mag)
        /\ ~Rect.x.neg /\ ~Rect.y.neg
        /\ off.canvas = Some([width |-> Box.width, height |-> Box.height])

\* C14, amended: the same relations hold up to the rounding of double
\* arithmetic: scaledWidth * ih and scaledHeight * iw differ by at most the
\* tolerance, the rectangle exceeds the box by at most the tolerance and comes
\* within the tolerance of it on at least one axis, x and y are within the
\* tolerance of (W - scaledWidth)/2 and (H - scaledHeight)/2 and are not below
\* minus the tolerance; the canvas is exactly W x H.
C14_GeometryWithinTolerance ==
    Drawn =>
        /\ Near(BigMulInt(Img.height, Rect.width.mag),
                BigMulInt(Img.width, Rect.height.mag))
        /\ BigCmp(Rect.width.mag, BigAdd(BigFromInt(Box.width), Tolerance)) <= 0
        /\ BigCmp(Rect.height.mag, BigAdd(BigFromInt(Box.height), Tolerance)) <= 0
        /\ \/ Near(Rect.width.mag, BigFromInt(Box.width))
           \/ Near(Rect.height.mag, BigFromInt(Box.height))
        /\ SignedNear([neg |-> Rect.x.neg, mag |-> BigDouble(Rect.x.mag)],
                      ExactIntMinus(Box.width, Rect.width.mag))
        /\ SignedNear([neg |-> Rect.y.neg, mag |-> BigDouble(Rect.y.mag)],
                      ExactIntMinus(Box.height, Rect.height.mag))
        /\ Rect.x.neg => BigCmp(Rect.x.mag, Tolerance) <= 0
        /\ Rect.y.neg => BigCmp(Rect.y.mag, Tolerance) <= 0
        /\ off.canvas = Some([width |-> Box.width, height |-> Box.height])

\* A 1 x 11 image drawn into a 16 x 100 box: 100/11 rounds up, so the scaled
\* height 11 * (100/11) comes out above 100 and y below 0.
C14_Witness ==
    /\ Drawn
    /\ Img = [width |-> 1, height |-> 11]
    /\ Box = [width |-> 16, height |-> 100]
    /\ Rect.y.neg /\ Rect.y.mag # { }
    /\ ~Rect.x.neg /\ Rect.x.mag # { }

(***************************************************************************)
(* THE CUSTOM SIZE INPUTS (sidepanel.tsx:254-422)                          *)
(*                                                                         *)
(* One CustomSizeInputs instance, rendered in the row of item InputsItem   *)
(* while its selected size is "custom".  The component is declared inside  *)
(* SidePanel, so every render of SidePanel makes it a new component type   *)
(* and React mounts a fresh instance: the instance that wrote customSizes  *)
(* is replaced by one initialised from what it wrote.                      *)
(***************************************************************************)
\* the first row
InputsItem == CHOOSE id \in ItemIds : \A other \in ItemIds : id <= other

InputsUnmounted ==
    [mounted |-> FALSE, localSize |-> None, tempInput |-> None,
     prevSizeRef |-> None, timeout |-> FALSE]

InputsIdle == inputs = InputsUnmounted

\* Math.round of a non-negative double: floor(x + 0.5)
MathRound(x) ==
    LET whole == { e \in x.mag : e >= 0 }
        RECURSIVE Sum(_)
        Sum(es) == IF es = { } THEN 0
                   ELSE LET e == CHOOSE f \in es : TRUE
                        IN  Pow2(e) + Sum(es \ { e })
    IN  Sum(whole) + (IF -1 \in x.mag THEN 1 ELSE 0)

\* sidepanel.tsx:265-268  aspectRatio = svg.dimensions.width / svg.dimensions.height.
\* The items of the model have ratios that are doubles exactly, so value /
\* aspectRatio is the double nearest to value * height / width and value *
\* aspectRatio the double nearest to value * width / height.
DivByAspect(value, dimensions) ==
    MathRound(DoubleDiv(value * dimensions.height, dimensions.width))
TimesAspect(value, dimensions) ==
    MathRound(DoubleDiv(value * dimensions.width, dimensions.height))

\* sidepanel.tsx:257-263, 303-306, 281-284  a fresh instance after its first
\* effect ran
InputsMounted(stored, dimensions) ==
    LET localSize == IF IsSome(stored) THEN Get(stored)
                     ELSE [width |-> Or0(dimensions.width, 100),
                           height |-> Or0(dimensions.height, 100),
                           keepRatio |-> TRUE]
    IN  [mounted |-> TRUE,
         localSize |-> Some(localSize),
         tempInput |-> Some([width |-> localSize.width, height |-> localSize.height]),
         prevSizeRef |-> Some(localSize),
         timeout |-> FALSE]

\* sidepanel.tsx:654  the row renders the inputs once "custom" is selected
MountInputs ==
    /\ ~inputs.mounted
    /\ HasItem(InputsItem)
    /\ SelectedSize(InputsItem).width = -2
    /\ inputs' = InputsMounted(customSizes[InputsItem], Item(InputsItem).dimensions)
    /\ UNCHANGED << customSizes, notInputs >>

\* What the user types: NumericFormat passes on whole numbers from 1 to 9999
\* only (sidepanel.tsx:375-380).
TypedValues == { 1, 9999 }

\* sidepanel.tsx:313  Math.max(1, Math.min(9999, value))
ClampInput(value) == IF value < 1 THEN 1 ELSE IF value > 9999 THEN 9999 ELSE value

\* handleInputChange (sidepanel.tsx:309-326)
TypeValue ==
    /\ inputs.mounted
    /\ \E type \in { "width", "height" }, value \in TypedValues :
        inputs' = [inputs EXCEPT
                     !.tempInput = Some([Get(@) EXCEPT ![type] = ClampInput(value)])]
    /\ UNCHANGED << customSizes, notInputs >>

\* sidepanel.tsx:279-300  the effect after setLocalSize: the cleanup clears the
\* timer of the run before, and a value that differs from the ref starts one
SetLocalSize(localSize) ==
    [inputs EXCEPT !.localSize = Some(localSize),
                   !.timeout = (Get(inputs.prevSizeRef) # localSize)]

\* handleInputConfirm (sidepanel.tsx:329-350), on Enter
ConfirmInput ==
    /\ inputs.mounted
    /\ \E type \in { "width", "height" } :
        LET value      == Get(inputs.tempInput)[type]
            prev       == Get(inputs.localSize)
            dimensions == Item(InputsItem).dimensions
        IN  /\ value >= 1
            /\ inputs' = SetLocalSize(
                 IF type = "width"
                 THEN [prev EXCEPT !.width = value,
                                   !.height = IF prev.keepRatio
                                              THEN DivByAspect(value, dimensions)
                                              ELSE @]
                 ELSE [prev EXCEPT !.height = value,
                                   !.width = IF prev.keepRatio
                                             THEN TimesAspect(value, dimensions)
                                             ELSE @])
    /\ UNCHANGED << customSizes, notInputs >>

\* the aspect-ratio lock button (sidepanel.tsx:401-408)
ToggleRatio ==
    /\ inputs.mounted
    /\ LET prev == Get(inputs.localSize)
       IN  inputs' = SetLocalSize(
             [prev EXCEPT !.keepRatio = ~prev.keepRatio,
                          !.height = IF ~prev.keepRatio
                                     THEN DivByAspect(prev.width,
                                                      Item(InputsItem).dimensions)
                                     ELSE @])
    /\ UNCHANGED << customSizes, notInputs >>

\* sidepanel.tsx:292-295, 271-276  300 ms later: updateGlobalSize(localSize);
\* SidePanel renders and a fresh instance takes over
TimeoutFires ==
    /\ inputs.mounted
    /\ inputs.timeout
    /\ customSizes' = [customSizes EXCEPT ![InputsItem] = inputs.localSize]
    /\ inputs' = InputsMounted(inputs.localSize, Item(InputsItem).dimensions)
    /\ UNCHANGED notInputs

(***************************************************************************)
(* CLAIMS ABOUT THE CUSTOM SIZE INPUTS                                     *)
(***************************************************************************)
InRange(size) == size.width \in 1..9999 /\ size.height \in 1..9999

\* C17: after any sequence of custom-size edits on an item (typing, confirming
\* width or height, toggling the aspect-ratio lock), for every item aspect
\* ratio, the confirmed custom size -- the one the inputs hold and the one they
\* stored for the download -- has a width and a height in 1..9999, so the
\* download path never rejects it as invalid.
C17_ConfirmedSizeInRange ==
    /\ inputs.mounted => InRange(Get(inputs.localSize))
    /\ IsSome(customSizes[InputsItem]) =>
           /\ InRange(Get(customSizes[InputsItem]))
           /\ ~InvalidCustom(customSizes[InputsItem])

(***************************************************************************)
(* CLAIMS ABOUT THE PER-ITEM STATE ACROSS SCANS                            *)
(***************************************************************************)
\* A step in which a scan stores a list other than the one shown.
ListReplaced == svgItems' # svgItems
HasItemNext(id) == \E i \in 1..Len(svgItems') : svgItems'[i].id = id

\* A step in which the download of row id writes its final status.
StatusWritten(id) ==
    /\ dl[id].pc # "idle"
    /\ downloadStatus'[id] # downloadStatus[id]
    /\ IsSome(downloadStatus'[id]) /\ ~Get(downloadStatus'[id]).loading

\* C18: per-item state never carries over from one scan result to the next:
\* when a scan replaces the item list, no item of the new list has a download
\* status (an error or a loading flag), a selected size or a custom size, all
\* of which were recorded for items of the list before; and a download writes
\* its final status only onto the item it was started for.
C18_NoCarryOver ==
    [][ /\ ListReplaced =>
             \A id \in ItemIds :
                 HasItemNext(id) =>
                     /\ downloadStatus'[id] = None
                     /\ selectedSizes'[id] = None
                     /\ customSizes'[id] = None
        /\ \A id \in ItemIds :
             StatusWritten(id) => (HasItem(id) /\ dl[id].svg = Item(id))
      ]_vars

(***************************************************************************)
(* SPECIFICATIONS                                                          *)
(***************************************************************************)
\* ---- SpecScan: any page, scanned.
InitScan == page = << >> /\ ScanInit0 /\ DimIdle /\ RasterIdle /\ PanelIdle /\ TabsIdle /\ OffIdle /\ InputsIdle
NextScan == BuildPage \/ ScanRequest
SpecScan == InitScan /\ [][NextScan]_vars

\* ---- SpecCache: requests, page mutations and the clock interleaved.
InitCache == page = << >> /\ ScanInit0 /\ DimIdle /\ RasterIdle /\ PanelIdle /\ TabsIdle /\ OffIdle /\ InputsIdle
NextCache == ScanRequest \/ AddNode(MaxCacheNodes) \/ RemoveNode \/ Tick
SpecCache == InitCache /\ [][NextCache]_vars

\* ---- SpecDim: getSVGDimensions on any element.
InitDim == ScanIdle /\ elem \in Elements /\ dims = None /\ RasterIdle /\ PanelIdle /\ TabsIdle /\ OffIdle /\ InputsIdle
NextDim == GetSVGDimensions
SpecDim == InitDim /\ [][NextDim]_vars

\* ---- SpecRaster: svgToDataUrl on any markup and target size.
InitRaster ==
    /\ ScanIdle /\ DimIdle /\ PanelIdle /\ TabsIdle /\ OffIdle /\ InputsIdle
    /\ svgString \in Markups
    /\ target \in { [width |-> w, height |-> h] : w, h \in TargetSizes }
    /\ raster = RasterNotCalled
NextRaster == SvgToDataUrl \/ ImgOnload \/ ImgOnerror
SpecRaster == InitRaster /\ [][NextRaster]_vars

\* ---- SpecDownload: downloads of the items of a scan, interleaved.
InitDownload ==
    /\ ScanIdle /\ DimIdle /\ RasterIdle /\ OffIdle /\ InputsIdle
    /\ svgItems \in ItemLists
    /\ PanelInit0
    /\ TabsAfterScan /\ events = [n |-> MaxEvents, owed |-> FALSE]
NextDownload ==
    \/ SelectSize \/ SetCustomSize \/ HandleDownload
    \/ RasterSettles \/ SaveSettles
    \/ TaskSettles \/ ZipSettles \/ ZipSaveSettles
SpecDownload == InitDownload /\ [][NextDownload]_vars

\* ---- SpecTabs: the panel opens, scans, and follows the tabs.
InitTabs ==
    /\ ScanIdle /\ DimIdle /\ RasterIdle /\ PanelIdle /\ OffIdle /\ InputsIdle
    /\ activeTab \in { None, Some(1) }
    /\ TabsInit0
NextTabs ==
    \/ Mount \/ RunEffect \/ TabActivated \/ TabUpdated \/ RefreshClick
    \/ QuerySettles \/ MessageSettles
SpecTabs == InitTabs /\ [][NextTabs]_vars

\* ---- SpecTabsLive: the same, where the panel is mounted, a pending effect
\* runs, and every tab query and scan message settles.
SpecTabsLive ==
    /\ SpecTabs
    /\ WF_vars(Mount) /\ WF_vars(RunEffect)
    /\ WF_vars(QuerySettles) /\ WF_vars(MessageSettles)

\* ---- SpecOff: one message to the offscreen document, on either browser.
InitOff ==
    /\ ScanIdle /\ DimIdle /\ RasterIdle /\ PanelIdle /\ TabsIdle /\ InputsIdle
    /\ offMsg \in OffMessages
    /\ \E aware \in BOOLEAN : off = OffNotCalled(aware)
NextOff == OnMessage \/ OffOnload \/ OffOnerror
SpecOff == InitOff /\ [][NextOff]_vars

\* ---- SpecInputs: the custom size inputs of one item of each aspect ratio.
InputsItemLists ==
    { << MakeItem(InputsItem, BareMarkup, d[1], d[2]) >> :
        d \in { << 100, 16 >>, << 1, 2 >>, << 48, 48 >> } }
InitInputs ==
    /\ ScanIdle /\ DimIdle /\ RasterIdle /\ OffIdle
    /\ svgItems \in InputsItemLists
    /\ selectedSizes = [id \in ItemIds |-> IF id = InputsItem THEN Some(7) ELSE None]
    /\ customSizes = [id \in ItemIds |-> None]
    /\ downloadStatus = [id \in ItemIds |-> None]
    /\ dl = [id \in ItemIds |-> DlIdle]
    /\ req = [id \in ItemIds |-> ReqNone]
    /\ TabsAfterScan /\ events = [n |-> MaxEvents, owed |-> FALSE]
    /\ InputsIdle
NextInputs == MountInputs \/ TypeValue \/ ConfirmInput \/ ToggleRatio \/ TimeoutFires
SpecInputs == InitInputs /\ [][NextInputs]_vars

\* ---- SpecRescan: downloads of the items of a scan, and a scan after it.
\* The tasks of an archive export stay pending here; SpecDownload follows
\* them to their end.
InitRescan ==
    /\ ScanIdle /\ DimIdle /\ RasterIdle /\ OffIdle /\ InputsIdle
    /\ svgItems \in ItemLists
    /\ PanelInit0
    /\ TabsAfterScan /\ events = NoEvents
NextRescan ==
    \/ SelectSize \/ SetCustomSize \/ HandleDownload
    \/ RasterSettles \/ SaveSettles
    \/ RefreshClick \/ QuerySettles \/ MessageSettles
SpecRescan == InitRescan /\ [][NextRescan]_vars

=============================================================================
